---------------------------- MODULE Spec2Model ----------------------------
(***************************************************************************)
(* Model of the hackathonapi/api extraction pipeline and analysis engine.  *)
(*                                                                         *)
(* The repository holds two extraction modules.  src/extractor.py is the   *)
(* two-tier module (static fetch, then headless render); its definitions   *)
(* carry the prefix Extractor_.  src/services/extractor_service.py is the  *)
(* module the routers import; its definitions carry the prefix Service_.   *)
(*                                                                         *)
(* Representation.  A normalized text is the sequence of its whitespace-   *)
(* delimited words, so len(text.split()) is Len and "not text" is          *)
(* text = <<>> (after _normalize a text is non-empty exactly when it has   *)
(* a word).  Raw markup is a sequence of whitespace-delimited tokens whose *)
(* case matters.  Hosts and paths are sequences of characters.  An         *)
(* Optional[str] is a record [ok, text]; ok = FALSE is Python's None.      *)
(* error = "None" is Python's error=None.                                  *)
(***************************************************************************)
EXTENDS Integers, Sequences, FiniteSets, TLC

VARIABLES
    pc,        \* position of the request being served
    req,       \* the request: [module, kind, url, text]
    tier1,     \* what the static tier handed to extract_generic
    tier2,     \* what the render tier handed to extract_generic
    calls,     \* collaborators invoked for this request, in order
    result,    \* the ExtractionResult returned (or the empty record slot)
    apc,       \* position of the analysis being served
    atext,     \* the text under analysis, as the features the scorers read
    prob,      \* the probability handed to the backup messages
    ai,        \* what _openai_analyze returned: [configured, failed, sections]
    report,    \* the AnalysisResult returned
    rpc,       \* position of the detect_scam / detect_objectivity call
    rreq,      \* its arguments, the classifier's probability, the settings
    rres,      \* what the call returned, or the exception it raised
    hpc,       \* position of the HTTP request being served
    hreq,      \* the HTTP request: [route, id]
    hext,      \* the ExtractionResult the route obtained
    hcalls,    \* what the route has invoked, in order
    haudio,    \* the audio bytes and record id of the POST /audio under way
    hresp,     \* the HTTP response: [status, id, body]
    hposted,   \* record id -> bytes, for every POST answered 200 so far
    hstore,    \* the storage bucket: [configured, meta, blob]
    classifier,\* module globals _scam_classifier, ...: kind -> handle (0 is None)
    built,     \* kind -> how many times pipeline(...) has built a handle
    worker,    \* executor thread -> [pc, kind, local, handle]
    submitted, \* classifier runs handed to the executor so far
    npc,       \* position of the normalizer under observation
    ntext,     \* the text handed to _normalize, character by character
    nonce,     \* _normalize(ntext)
    ntwice,    \* _normalize(_normalize(ntext))
    fpc,       \* which helper function is being called, "idle" if none
    farg,      \* the arguments of that call
    fres,      \* what the call returned
    saver,     \* the save_clearway / save_audio under way: [pc, kind, id]
    getter     \* the get_clearway / get_audio under way: [pc, kind, id, response]

evars == <<pc, req, tier1, tier2, calls, result>>
avars == <<apc, atext, prob, ai, report>>
rvars == <<rpc, rreq, rres>>
hvars == <<hpc, hreq, hext, hcalls, haudio, hresp, hposted, hstore>>
lvars == <<classifier, built, worker, submitted>>
nvars == <<npc, ntext, nonce, ntwice>>
fvars == <<fpc, farg, fres>>
svars == <<saver, getter>>
vars == <<evars, avars, rvars, hvars, lvars, nvars, fvars, svars>>

\* what the actions of one component leave alone
non_evars == <<avars, rvars, hvars, lvars, nvars, fvars, svars>>
non_avars == <<evars, rvars, hvars, lvars, nvars, fvars, svars>>
non_rvars == <<evars, avars, hvars, lvars, nvars, fvars, svars>>
non_hvars == <<evars, avars, rvars, lvars, nvars, fvars, svars>>
non_lvars == <<evars, avars, rvars, hvars, nvars, fvars, svars>>
non_nvars == <<evars, avars, rvars, hvars, lvars, fvars, svars>>
non_fvars == <<evars, avars, rvars, hvars, lvars, nvars, svars>>
non_store == <<evars, avars, rvars, hpc, hreq, hext, hcalls, haudio, hresp, hposted,
               lvars, nvars, fvars>>

---------------------------------------------------------------------------
(* Bounds and program constants *)

MaxWords == 200        \* longest page, in words, the environment serves

RENDER_BELOW == 150    \* extractor.py: tier 2 when tier 1 has fewer words
GATE_BELOW == 120      \* paywall gate: "very little text"
FLOOR_BELOW == 50      \* final floor on the best content

---------------------------------------------------------------------------
(* Strings as character sequences *)

UPPER == <<"A","B","C","D","E","F","G","H","I","J","K","L","M",
           "N","O","P","Q","R","S","T","U","V","W","X","Y","Z">>
LOWER == <<"a","b","c","d","e","f","g","h","i","j","k","l","m",
           "n","o","p","q","r","s","t","u","v","w","x","y","z">>

LowerChar(c) ==
    IF \E i \in 1..26 : UPPER[i] = c
    THEN LOWER[CHOOSE i \in 1..26 : UPPER[i] = c]
    ELSE c

\* str.lower()
Lower(s) == [i \in 1..Len(s) |-> LowerChar(s[i])]

\* s.startswith(p) / s.endswith(p)
StartsWith(s, p) == Len(p) <= Len(s) /\ SubSeq(s, 1, Len(p)) = p
EndsWith(s, p) == Len(p) <= Len(s) /\ SubSeq(s, Len(s) - Len(p) + 1, Len(s)) = p

\* needle in hay (contiguous)
Contains(hay, needle) ==
    \E i \in 0..(Len(hay) - Len(needle)) :
        \A j \in 1..Len(needle) : hay[i + j] = needle[j]

WWW == <<"w","w","w",".">>

\* s.replace("www.", ""): every non-overlapping occurrence, left to right
RECURSIVE StripWww(_)
StripWww(s) ==
    IF s = <<>> THEN <<>>
    ELSE IF StartsWith(s, WWW) THEN StripWww(SubSeq(s, 5, Len(s)))
    ELSE <<Head(s)>> \o StripWww(Tail(s))

\* urlparse(url).netloc.lower().replace("www.", "")
Domain(url) == StripWww(Lower(url.host))

\* a text of n words
Words(n, w) == [i \in 1..n |-> w]

None == [ok |-> FALSE, text |-> <<>>]
Some(t) == [ok |-> TRUE, text |-> t]

\* Python's "not content" for an Optional[str]
Falsy(c) == ~c.ok \/ c.text = <<>>

---------------------------------------------------------------------------
(* Paywall / quality gate *)

KNOWN_PAYWALL_DOMAINS == {
      <<"n","y","t","i","m","e","s",".","c","o","m">>,
      <<"w","s","j",".","c","o","m">>,
      <<"f","t",".","c","o","m">>,
      <<"b","l","o","o","m","b","e","r","g",".","c","o","m">>,
      <<"e","c","o","n","o","m","i","s","t",".","c","o","m">>,
      <<"t","h","e","t","i","m","e","s",".","c","o",".","u","k">>,
      <<"t","h","e","a","t","l","a","n","t","i","c",".","c","o","m">>,
      <<"n","e","w","y","o","r","k","e","r",".","c","o","m">>,
      <<"w","i","r","e","d",".","c","o","m">>,
      <<"h","b","r",".","o","r","g">>,
      <<"f","o","r","e","i","g","n","p","o","l","i","c","y",".","c","o","m">>,
      <<"s","t","a","t","i","s","t","a",".","c","o","m">>,
      <<"b","u","s","i","n","e","s","s","i","n","s","i","d","e","r",".","c","o","m">> }

\* The phrase list, each phrase as its words
PAYWALL_SIGNALS == {
      <<"subscribe","to","continue","reading">>,
      <<"subscribe","to","read">>,
      <<"sign","in","to","read">>,
      <<"create","a","free","account","to","continue">>,
      <<"you've","reached","your","free","article","limit">>,
      <<"this","article","is","for","subscribers","only">>,
      <<"subscribers","only">>,
      <<"unlock","this","article">>,
      <<"get","full","access">>,
      <<"join","to","read","more">>,
      <<"register","to","continue">>,
      <<"premium","content">>,
      <<"become","a","member","to","read">> }

\* Lower-casing of the markup tokens the environment serves that are not
\* already lower case
TokenCase ==
    ("Subscribe" :> "subscribe") @@ ("Reading" :> "reading") @@
    ("PREMIUM" :> "premium") @@ ("Content" :> "content")

LowerToken(w) == IF w \in DOMAIN TokenCase THEN TokenCase[w] ELSE w

\* html.lower(), token by token
LowerMarkup(html) == [i \in 1..Len(html) |-> LowerToken(html[i])]

MSG_DOMAIN == "is a known paywalled publication"
MSG_SIGNAL == "This content appears to be behind a paywall"
MSG_LITTLE == "This page returned very little text and may be paywalled or require login"
MSG_FLOOR == "Could not extract meaningful content from this page"

KnownPaywallDomain(url) ==
    \E d \in KNOWN_PAYWALL_DOMAINS : EndsWith(Domain(url), d)

HasPaywallSignal(html) ==
    \E s \in PAYWALL_SIGNALS : Contains(LowerMarkup(html), s)

\* the word-count check moved ahead of the phrase check
detect_paywall_count_first(url, soup_text, raw_html) ==
    IF KnownPaywallDomain(url) THEN MSG_DOMAIN
    ELSE IF Len(soup_text) < GATE_BELOW THEN MSG_LITTLE
    ELSE IF HasPaywallSignal(raw_html) THEN MSG_SIGNAL
    ELSE "None"

\* extractor.py detect_paywall(url, soup, raw_html); soup_text is
\* soup.get_text().  Returns the message, or "None".
detect_paywall(url, soup_text, raw_html) ==
    IF KnownPaywallDomain(url) THEN MSG_DOMAIN
    ELSE IF HasPaywallSignal(raw_html) THEN MSG_SIGNAL
    ELSE IF Len(soup_text) < GATE_BELOW THEN MSG_LITTLE
    ELSE "None"

\* extractor_service.py check_for_paywall(url, html, word_count).  Returns the
\* message of the PaywallDetected it raises, or "None" when it returns.
check_for_paywall(url, html, word_count) ==
    IF KnownPaywallDomain(url) THEN MSG_DOMAIN
    ELSE IF HasPaywallSignal(html) THEN MSG_SIGNAL
    ELSE IF word_count < GATE_BELOW THEN MSG_LITTLE
    ELSE "None"

---------------------------------------------------------------------------
(* URL classification *)

REDDIT_HOSTS == {
    <<"r","e","d","d","i","t",".","c","o","m">>,
    <<"o","l","d",".","r","e","d","d","i","t",".","c","o","m">>,
    <<"n","e","w",".","r","e","d","d","i","t",".","c","o","m">> }
TWITTER_HOSTS == { <<"t","w","i","t","t","e","r",".","c","o","m">>, <<"x",".","c","o","m">> }
YOUTUBE_HOSTS == { <<"y","o","u","t","u","b","e",".","c","o","m">>, <<"y","o","u","t","u",".","b","e">> }
DOT_PDF == <<".","p","d","f">>

\* extractor_service.py detect_url_type
Service_detect_url_type(url) ==
    IF Domain(url) \in REDDIT_HOSTS THEN "reddit"
    ELSE IF EndsWith(Lower(url.path), DOT_PDF) THEN "pdf_url"
    ELSE "generic"

\* extractor.py detect_url_type
Extractor_detect_url_type(url) ==
    IF Domain(url) \in YOUTUBE_HOSTS
       /\ (Contains(Lower(url.path), <<"w","a","t","c","h">>)
           \/ Contains(url.host \o url.path, <<"y","o","u","t","u",".","b","e">>)
           \/ Contains(Lower(url.path), <<"/","s","h","o","r","t","s","/">>))
    THEN "youtube"
    ELSE IF Domain(url) \in REDDIT_HOSTS THEN "reddit"
    ELSE IF Domain(url) \in TWITTER_HOSTS THEN "twitter"
    ELSE IF EndsWith(Lower(url.path), DOT_PDF) THEN "pdf_url"
    ELSE "generic"

---------------------------------------------------------------------------
(* ExtractionResult *)

ExtractionResult(title, content, input_type, word_count, method, error) ==
    [title |-> title, content |-> content, input_type |-> input_type,
     word_count |-> word_count, extraction_method |-> method, error |-> error]

Failure(input_type, method, error) ==
    ExtractionResult(<<>>, <<>>, input_type, 0, method, error)

NoResult == ExtractionResult(<<>>, <<>>, "none", 0, "none", "not returned")
NoUrl == [host |-> <<>>, path |-> <<>>]
NoReq == [module |-> "none", kind |-> "none", url |-> NoUrl, text |-> <<>>]
NoFetch == [ok |-> FALSE, raw_html |-> <<>>, soup_text |-> <<>>, text |-> <<>>, title |-> <<>>]


---------------------------------------------------------------------------
(* What the environment can serve *)

\* word counts around the three thresholds
PageCounts == {0, 30, FLOOR_BELOW, GATE_BELOW - 1, GATE_BELOW, RENDER_BELOW, MaxWords}
CoreCounts == {0, 1, 30, FLOOR_BELOW - 1, FLOOR_BELOW,
               RENDER_BELOW - 1, RENDER_BELOW, MaxWords}
HtmlPads == {0, 30, GATE_BELOW - 2, GATE_BELOW - 1, GATE_BELOW, RENDER_BELOW, MaxWords}

Markups == {
    <<"<p>">>,
    <<"Subscribe","to","continue","Reading">>,
    <<"<p>","PREMIUM","Content","<p>">>,
    <<"subscribe","today">> }

EXAMPLE == <<"e","x","a","m","p","l","e",".","c","o","m">>
PathA == <<"/","a">>

GenericUrls == {
    [host |-> EXAMPLE, path |-> PathA],
    [host |-> <<"s","o","f","t",".","c","o","m">>, path |-> PathA],
    [host |-> <<"w","w","w",".","n","y","t","i","m","e","s",".","c","o","m">>, path |-> PathA],
    [host |-> <<"N","e","w","s",".","W","S","J",".","c","o","m">>, path |-> PathA] }

OtherUrls == {
    [host |-> <<"w","w","w",".","r","e","d","d","i","t",".","c","o","m">>, path |-> <<"/","r","/","x">>],
    [host |-> EXAMPLE, path |-> <<"/","D","o","c",".","P","D","F">>],
    [host |-> <<"t","w","i","t","t","e","r",".","c","o","m">>, path |-> PathA],
    [host |-> <<"y","o","u","t","u",".","b","e">>, path |-> <<"/","d","Q","w","4","w","9","W","g","X","c","Q">>],
    [host |-> <<"y","o","u","t","u",".","b","e">>, path |-> PathA] }

Urls == GenericUrls \cup OtherUrls

\* extract_with_beautifulsoup's fetch: an exception, or a page with its
\* markup, its soup.get_text() and its extract_core_content(), which is a
\* part of the page's text
StaticPages ==
    {[ok |-> TRUE, raw_html |-> h, soup_text |-> Words(p, "page"),
      text |-> Words(c, "static"), title |-> <<>>] :
        h \in Markups, p \in PageCounts, c \in CoreCounts}
StaticResponses ==
    {NoFetch} \cup {r \in StaticPages : Len(r.text) <= Len(r.soup_text)}

\* extract_with_playwright: None on any exception (timeout included), else
\* extract_core_content of the rendered page
RenderResponses == {None} \cup {Some(Words(c, "render")) : c \in CoreCounts}

\* _run_newspaper: an exception, or (raw_html, title, authors, text); the
\* article text is a part of the markup
NewspaperPages ==
    {[ok |-> TRUE, raw_html |-> h \o Words(n, "<p>"), soup_text |-> <<>>,
      text |-> Words(c, "article"), title |-> <<"Title">>] :
        h \in Markups, n \in HtmlPads, c \in CoreCounts}
NewspaperResponses ==
    {NoFetch} \cup {r \in NewspaperPages : Len(r.text) <= Len(r.raw_html)}

\* the post of a Reddit JSON listing: title and selftext, already stripped
RedditTitles == {<<>>, <<"A","title">>}
RedditBodies == {<<>>, <<"[deleted]">>, <<"[removed]">>, <<"the","post","body">>}
RedditResponses ==
    {NoFetch} \cup
    {[ok |-> TRUE, raw_html |-> <<>>, soup_text |-> <<>>, text |-> b, title |-> t] :
        t \in RedditTitles, b \in RedditBodies}

\* a downloaded document's text layer / a transcript, normalized
DocumentResponses ==
    {NoFetch} \cup
    {[ok |-> TRUE, raw_html |-> <<>>, soup_text |-> <<>>, text |-> Words(c, "doc"),
      title |-> <<>>] : c \in {0, 1, 30}}

MAX_TEXT_LENGTH == 50000

\* how a text input can begin: its characters up to the first whitespace
TextHeads == {
    <<>>,
    <<"t">>,
    <<"e",".","g",".">>,
    <<"O","k",".","T","h","x">>,
    <<"h","t","t","p",":","/","/","a">>,
    <<"h","t","t","p","s",":","/","/","a">> }

\* raw text inputs: the words left after strip(), the length in characters,
\* the characters up to the first whitespace, and whether a space occurs
TextInputs ==
    {[words |-> Words(n, "t"), length |-> l, head |-> h, space |-> sp] :
        n \in {0, 1, 30, FLOOR_BELOW - 1, FLOOR_BELOW},
        l \in {0, 400, MAX_TEXT_LENGTH, MAX_TEXT_LENGTH + 1},
        h \in TextHeads, sp \in BOOLEAN}

\* the words are separated by spaces, tabs or line ends
ValidText(t) ==
    /\ (t.words = <<>>) <=> (t.length = 0)
    /\ (t.words = <<>>) <=> (t.head = <<>>)
    /\ t.space => Len(t.words) >= 2
    /\ t.length >= 2 * Len(t.words) - 1
    /\ t.length >= Len(t.head)

NoText == [words |-> <<>>, length |-> 0, head |-> <<>>, space |-> FALSE]

\* [a-zA-Z]
Letter(c) == \E i \in 1..26 : UPPER[i] = c \/ LOWER[i] = c

\* [\w.-]
DomainChar(c) ==
    Letter(c) \/ c \in {"0","1","2","3","4","5","6","7","8","9", "_", ".", "-"}

\* re.match(r'^[\w.-]+\.[a-zA-Z]{2,}', text)
DomainLike(s) ==
    \E i \in 2..(Len(s) - 2) :
        /\ \A j \in 1..(i - 1) : DomainChar(s[j])
        /\ s[i] = "."
        /\ Letter(s[i + 1]) /\ Letter(s[i + 2])

\* extractor_service.py _is_url (lines 92-99)
_is_url(t) ==
    \/ StartsWith(t.head, <<"h","t","t","p",":","/","/">>)
    \/ StartsWith(t.head, <<"h","t","t","p","s",":","/","/">>)
    \/ ~t.space /\ DomainLike(t.head)

\* extractor.py extract(url=""): clean_url makes "https://" of it, a URL no
\* client can fetch and no browser can open
StaticResponsesFor(url) == IF url = NoUrl THEN {NoFetch} ELSE StaticResponses
RenderResponsesFor(url) == IF url = NoUrl THEN {None} ELSE RenderResponses

---------------------------------------------------------------------------
(* extractor.py: the two-tier generic adapter, as pure steps *)

\* extract_with_beautifulsoup(url), given what the fetch produced: the
\* message of the PaywallError it raises (or "None"), and the content it
\* returns (None after any other exception)
extract_with_beautifulsoup(url, resp) ==
    IF ~resp.ok THEN [paywall |-> "None", content |-> None]
    ELSE LET m == detect_paywall(url, resp.soup_text, resp.raw_html)
         IN  IF m # "None" THEN [paywall |-> m, content |-> None]
             ELSE [paywall |-> "None", content |-> Some(resp.text)]

\* the floor's threshold used where the render threshold belongs
Extractor_needs_render_floor(content) ==
    Falsy(content) \/ Len(content.text) < FLOOR_BELOW

\* extract_generic line 403: is the render tier needed
Extractor_needs_render(content) ==
    Falsy(content) \/ Len(content.text) < RENDER_BELOW

\* a PaywallError handled like any other exception of tier 1
Extractor_after_tier1_swallow(t1) ==
    IF Extractor_needs_render(t1.content) THEN "render" ELSE "finish"

\* extract_generic lines 394-411: what follows tier 1
Extractor_after_tier1(t1) ==
    IF t1.paywall # "None" THEN "paywall"
    ELSE IF Extractor_needs_render(t1.content) THEN "render"
    ELSE "finish"

\* the comparison reversed: the render content is kept when it is shorter
Extractor_select_fewer(content, playwright_content) ==
    IF ~Falsy(playwright_content)
       /\ Len(playwright_content.text) < Len(content.text)
    THEN [content |-> playwright_content, method |-> "playwright"]
    ELSE [content |-> content, method |-> "beautifulsoup"]

\* ties go to the render tier
Extractor_select_ties(content, playwright_content) ==
    IF ~Falsy(playwright_content)
       /\ Len(playwright_content.text) >= Len(content.text)
    THEN [content |-> playwright_content, method |-> "playwright"]
    ELSE [content |-> content, method |-> "beautifulsoup"]

\* the render tier's outcome always replaces tier 1's
Extractor_select_always(content, playwright_content) ==
    [content |-> playwright_content, method |-> "playwright"]

\* extract_generic lines 405-409: which tier's content is kept
Extractor_select(content, playwright_content) ==
    IF ~Falsy(playwright_content)
       /\ Len(playwright_content.text) > Len(content.text)
    THEN [content |-> playwright_content, method |-> "playwright"]
    ELSE [content |-> content, method |-> "beautifulsoup"]

\* the floor forgotten: any non-empty content is returned
Extractor_finish_nofloor(content, method) ==
    IF Falsy(content)
    THEN Failure("url", method, MSG_FLOOR)
    ELSE ExtractionResult(<<>>, content.text, "url", Len(content.text), method, "None")

\* extract_generic lines 413-427: the floor and the returned record
Extractor_finish(content, method) ==
    IF Falsy(content) \/ Len(content.text) < FLOOR_BELOW
    THEN Failure("url", method, MSG_FLOOR)
    ELSE ExtractionResult(<<>>, content.text, "url", Len(content.text), method, "None")

DIGITS == {"0","1","2","3","4","5","6","7","8","9"}
IdChars == {UPPER[i] : i \in 1..26} \cup {LOWER[i] : i \in 1..26} \cup DIGITS \cup {"_", "-"}

\* get_youtube_video_id for a youtu.be URL: eleven id characters after "/"
get_youtube_video_id(url) ==
    /\ Len(url.path) >= 12
    /\ url.path[1] = "/"
    /\ \A i \in 2..12 : url.path[i] \in IdChars

\* extract_reddit after the JSON fetch (extractor.py lines 340-368)
Extractor_reddit_result(resp) ==
    IF ~resp.ok THEN Failure("url", "reddit_json", "Could not extract Reddit post")
    ELSE LET body == IF resp.text \in {<<>>, <<"[deleted]">>, <<"[removed]">>}
                     THEN <<>> ELSE resp.text
             content == resp.title \o body
         IN  IF content = <<>>
             THEN Failure("url", "reddit_json", "Post appears to be empty, deleted, or a link post with no body")
             ELSE ExtractionResult(<<>>, content, "url", Len(content), "reddit_json", "None")

\* extract_youtube after the transcript fetch (extractor.py lines 282-323)
Extractor_youtube_result(resp) ==
    IF ~resp.ok THEN Failure("url", "youtube_transcript", "No transcript available for this video")
    ELSE IF resp.text = <<>>
    THEN Failure("url", "youtube_transcript", "Transcript was empty after cleaning")
    ELSE ExtractionResult(<<>>, resp.text, "url", Len(resp.text), "youtube_transcript", "None")

\* extract_from_text (extractor.py lines 529-550)
Extractor_text_result(t) ==
    IF t.words = <<>> THEN Failure("text", "raw_text", "Input text is empty.")
    ELSE IF t.length > MAX_TEXT_LENGTH THEN Failure("text", "raw_text", "Text is too long.")
    ELSE ExtractionResult(<<>>, t.words, "text", Len(t.words), "raw_text", "None")

\* extractor.py extract (lines 557-584) when not exactly one input is given
Extractor_provided_result(provided) ==
    IF provided = 0 THEN Failure("text", "none", "No input provided.")
    ELSE Failure("text", "none", "Only one input type can be provided at a time.")

\* extractor.py extract_from_file (lines 463-517), for a file that decodes
Extractor_file_result(allowed, t) ==
    IF ~allowed THEN Failure("file", "file_read", "File type is not supported.")
    ELSE IF t.words = <<>>
    THEN Failure("file", "file_read", "The uploaded file is empty.")
    ELSE ExtractionResult(<<>>, t.words, "file", Len(t.words), "file_read", "None")

---------------------------------------------------------------------------
(* services/extractor_service.py: the adapters, as pure steps *)

\* extract_generic after _run_newspaper (lines 274-302)
Service_generic_result(url, resp) ==
    LET m == IF resp.ok THEN check_for_paywall(url, resp.raw_html, Len(resp.raw_html))
             ELSE "None"
        content == IF resp.ok /\ m = "None" THEN Some(resp.text) ELSE None
    IN  IF m # "None" THEN Failure("url", "newspaper", m)
        ELSE IF Falsy(content) \/ Len(content.text) < FLOOR_BELOW
        THEN Failure("url", "newspaper", MSG_FLOOR)
        ELSE ExtractionResult(resp.title, content.text, "url", Len(content.text),
                              "newspaper", "None")

\* extract_reddit after the JSON fetch (lines 187-214)
Service_reddit_result(resp) ==
    IF ~resp.ok THEN Failure("url", "reddit_json", "Could not extract Reddit post")
    ELSE LET body == IF resp.text \in {<<>>, <<"[deleted]">>, <<"[removed]">>}
                     THEN <<>> ELSE resp.text
             content == resp.title \o body
         IN  IF content = <<>>
             THEN Failure("url", "reddit_json", "Post appears to be empty, deleted, or a link post with no body.")
             ELSE ExtractionResult(resp.title, body, "url", Len(content), "reddit_json", "None")

\* extract_pdf_url after the download (lines 223-254)
Service_pdf_result(resp) ==
    IF ~resp.ok THEN Failure("url", "pdf_url", "Could not download or extract PDF")
    ELSE IF resp.text = <<>>
    THEN Failure("url", "pdf_url", "PDF contains no extractable text. It may be a scanned image PDF.")
    ELSE ExtractionResult(<<>>, resp.text, "url", Len(resp.text), "pdf_url", "None")

\* extract_from_text holding raw text to the floor of the generic adapter
Service_text_result_floor(t) ==
    IF t.words = <<>> \/ Len(t.words) < FLOOR_BELOW
    THEN Failure("text", "raw_text", MSG_FLOOR)
    ELSE ExtractionResult(<<>>, t.words, "text", Len(t.words), "raw_text", "None")

\* extract_from_text (lines 322-336)
Service_text_result(t) ==
    IF t.words = <<>> THEN Failure("text", "raw_text", "Input text is empty.")
    ELSE ExtractionResult(<<>>, t.words, "text", Len(t.words), "raw_text", "None")

---------------------------------------------------------------------------
(* services/analysis_service.py: heuristic scorers *)

\* Probabilities are round(x, 4): integers in units of 1/ProbScale
ProbScale == 10000
HIGH == 7000
LOW == 2000
SCAM_SATURATION == 3
BIAS_SATURATION == 3
BIAS_LENGTH == 200

MaxStyle == 2     \* most all-caps words / exclamation marks in a text
MaxRaw == 3       \* longest reply of the advisory service, in tokens

Min(a, b) == IF a <= b THEN a ELSE b
Max(a, b) == IF a >= b THEN a ELSE b

\* round(a / b) to the nearest integer, ties to even (Python's round)
RoundDiv(a, b) ==
    LET q == a \div b
        r == a % b
    IN  IF 2 * r > b THEN q + 1
        ELSE IF 2 * r < b THEN q
        ELSE q + (q % 2)

\* twice the weights of _SCAM_CATEGORIES (1.0, 2.0, 1.5, 2.0, 2.5, 1.5)
SCAM_WEIGHTS_X2 == <<2, 4, 3, 4, 5, 3>>

RECURSIVE SumTo(_, _)
SumTo(f, n) == IF n = 0 THEN 0 ELSE f[n] + SumTo(f, n - 1)

\* _score_scam counting the phrases of a category past the saturation point
\* from zero again
_score_scam_wrapped(t) ==
    LET m == Max(t.words, 1)
        sigma == SumTo([i \in 1..6 |->
                     (t.scam_hits[i] % (SCAM_SATURATION + 1)) * SCAM_WEIGHTS_X2[i]], 6)
        capsT == IF t.words > 0 THEN Min(5 * t.caps, t.words) ELSE 0
        exclT == Min(10 * t.exclaims, m)
        num == m * sigma + 3 * capsT + 3 * exclT
    IN  Min(RoundDiv(ProbScale * num, 69 * m), ProbScale)

\* _score_scam on a text with scam_hits[i] phrases of category i, caps
\* all-caps words, exclaims "!" and words whitespace-delimited words:
\* (sum_i min(h_i/3,1)*w_i + min(5*caps/words,1)*0.5
\*   + min(10*exclaims/max(words,1),1)*0.5) / 11.5, all over 69*m
_score_scam(t) ==
    LET m == Max(t.words, 1)
        sigma == SumTo([i \in 1..6 |->
                     Min(t.scam_hits[i], SCAM_SATURATION) * SCAM_WEIGHTS_X2[i]], 6)
        capsT == IF t.words > 0 THEN Min(5 * t.caps, t.words) ELSE 0
        exclT == Min(10 * t.exclaims, m)
        num == m * sigma + 3 * capsT + 3 * exclT
    IN  Min(RoundDiv(ProbScale * num, 69 * m), ProbScale)

\* _score_subjectivity; re_words is len(re.findall(r"\b\w+\b", text))
_score_subjectivity(t) ==
    IF t.re_words = 0 THEN ProbScale \div 2
    ELSE LET wc == t.re_words
             num == wc * (700 * Min(t.subj_hits, 5) + 300 * (5 - Min(t.obj_hits, 5)))
                    + 3000 * Min(20 * t.first_person, wc)
                    + 2000 * Min(50 * t.emotional, wc)
         IN  Min(Max(RoundDiv(num, wc), 0), ProbScale)

BIAS_CATEGORIES == {"political bias", "emotional manipulation", "loaded language",
                    "gender bias", "corporate bias"}

\* _score_biases without the saturation of the hit count
_score_biases_unsaturated(t) ==
    [c \in BIAS_CATEGORIES |->
        RoundDiv(ProbScale * t.bias_hits[c] * Min(Max(t.re_words, 1), BIAS_LENGTH),
                 BIAS_SATURATION * BIAS_LENGTH)]

\* _score_biases: the score of every category
_score_biases(t) ==
    [c \in BIAS_CATEGORIES |->
        RoundDiv(ProbScale * Min(t.bias_hits[c], BIAS_SATURATION)
                           * Min(Max(t.re_words, 1), BIAS_LENGTH),
                 BIAS_SATURATION * BIAS_LENGTH)]

---------------------------------------------------------------------------
(* services/analysis_service.py: backup messages *)

SCAM_CLEAR == "This content shows clear signs of a scam attempt."
SCAM_NONE == "No significant scam signals were detected in this content."
SCAM_DUBIOUS == "OpenAI did not respond. Scam risk is dubious"
SUBJ_CLEAR == "This text shows clear signs of being opinion-based rather than factual."
SUBJ_NONE == "This text appears largely objective and fact-based."
SUBJ_DUBIOUS == "OpenAI did not respond. The objectivity of this content is dubious"
BIAS_CLEAR == "Clear bias detected"
BIAS_NONE == "No significant bias patterns were detected in this content."
BIAS_DUBIOUS == "OpenAI did not respond. Bias level is dubious"

\* the confident-positive band starts strictly above HIGH
_scam_backup_strict(p) ==
    IF p > HIGH THEN SCAM_CLEAR
    ELSE IF p <= LOW THEN SCAM_NONE
    ELSE SCAM_DUBIOUS

_scam_backup(p) ==
    IF p >= HIGH THEN SCAM_CLEAR
    ELSE IF p <= LOW THEN SCAM_NONE
    ELSE SCAM_DUBIOUS

_objectivity_backup(p) ==
    IF p >= HIGH THEN [is_subjective |-> TRUE, notes |-> SUBJ_CLEAR]
    ELSE IF p <= LOW THEN [is_subjective |-> FALSE, notes |-> SUBJ_NONE]
    ELSE [is_subjective |-> FALSE, notes |-> SUBJ_DUBIOUS]

_bias_backup(scores) ==
    LET clear_above == {c \in DOMAIN scores : scores[c] >= HIGH}
    IN  IF clear_above # {} THEN [biases |-> clear_above, notes |-> BIAS_CLEAR]
        ELSE IF \A c \in DOMAIN scores : scores[c] <= LOW
        THEN [biases |-> {}, notes |-> BIAS_NONE]
        ELSE [biases |-> {}, notes |-> BIAS_DUBIOUS]

---------------------------------------------------------------------------
(* services/analysis_service.py: the advisory call *)

TAG_SUMMARY == "=== SUMMARY ==="
TAG_SCAM == "=== SCAM ANALYSIS ==="
TAG_OBJECTIVITY == "=== OBJECTIVITY ==="
TAG_BIAS == "=== BIAS ==="
ALL_TAGS == <<TAG_SUMMARY, TAG_SCAM, TAG_OBJECTIVITY, TAG_BIAS>>

TAG_DISPLAY ==
    (TAG_SUMMARY :> "Summary") @@ (TAG_SCAM :> "Scam Analysis") @@
    (TAG_OBJECTIVITY :> "Objectivity") @@ (TAG_BIAS :> "Bias")

\* a reply is a sequence of tokens: a section tag, a run of prose, white space
RawTokens == {ALL_TAGS[i] : i \in 1..4} \cup {"prose", " "}
RawResponses == UNION {[1..n -> RawTokens] : n \in 0..MaxRaw}

\* str.strip() on tokens
RECURSIVE LStrip(_)
LStrip(q) == IF q # <<>> /\ Head(q) = " " THEN LStrip(Tail(q)) ELSE q
RECURSIVE RStrip(_)
RStrip(q) == IF q # <<>> /\ q[Len(q)] = " " THEN RStrip(SubSeq(q, 1, Len(q) - 1)) ELSE q
Strip(q) == RStrip(LStrip(q))

\* raw.find(tag, from): the first position at or after from, 0 if none
Find(raw, tag, from) ==
    IF \E i \in from..Len(raw) : raw[i] = tag
    THEN CHOOSE i \in from..Len(raw) :
            raw[i] = tag /\ \A j \in from..(i - 1) : raw[j] # tag
    ELSE 0

\* the text _parse_sections cuts out for the i-th tag (<<>> if absent)
SectionText(raw, i) ==
    LET start == Find(raw, ALL_TAGS[i], 1)
        content_start == start + 1
        later == {Find(raw, ALL_TAGS[k], content_start) : k \in (i + 1)..4} \ {0}
        content_end == IF later # {}
                       THEN CHOOSE e \in later : \A o \in later : e <= o
                       ELSE Len(raw) + 1
    IN  IF start = 0 THEN <<>>
        ELSE Strip(SubSeq(raw, content_start, content_end - 1))

\* _parse_sections(raw): tag -> text, for the tags with a non-empty text
_parse_sections(raw) ==
    LET found == {i \in 1..4 : SectionText(raw, i) # <<>>}
    IN  [tag \in {ALL_TAGS[i] : i \in found} |->
            SectionText(raw, CHOOSE i \in 1..4 : ALL_TAGS[i] = tag)]

NoSections == [tag \in {} |-> <<>>]

\* the texts under analysis
ScamPatterns == {
    <<0, 0, 0, 0, 0, 0>>,
    <<0, 3, 0, 0, 0, 0>>,
    <<3, 3, 0, 0, 0, 0>>,
    <<0, 3, 0, 3, 3, 3>>,
    <<3, 3, 3, 3, 3, 3>> }

NoBias == [c \in BIAS_CATEGORIES |-> 0]

Profiles == {
    [words |-> 50, subj_hits |-> 0, obj_hits |-> 5, first_person |-> 0, emotional |-> 0,
     bias_hits |-> NoBias, extractive |-> Some(<<"extractive","summary">>)],
    [words |-> 200, subj_hits |-> 2, obj_hits |-> 0, first_person |-> 2, emotional |-> 0,
     bias_hits |-> [NoBias EXCEPT !["loaded language"] = 1],
     extractive |-> Some(<<"extractive","summary">>)],
    [words |-> 200, subj_hits |-> 5, obj_hits |-> 0, first_person |-> 10, emotional |-> 4,
     bias_hits |-> [NoBias EXCEPT !["political bias"] = 3], extractive |-> None] }

Docs ==
    {[scam_hits |-> sp, caps |-> c, exclaims |-> e, words |-> pr.words,
      re_words |-> pr.words, subj_hits |-> pr.subj_hits, obj_hits |-> pr.obj_hits,
      first_person |-> pr.first_person, emotional |-> pr.emotional,
      bias_hits |-> pr.bias_hits, extractive |-> pr.extractive] :
        sp \in ScamPatterns, c \in 0..MaxStyle, e \in 0..MaxStyle, pr \in Profiles}

NoDoc ==
    [scam_hits |-> <<0, 0, 0, 0, 0, 0>>, caps |-> 0, exclaims |-> 0, words |-> 0,
     re_words |-> 0, subj_hits |-> 0, obj_hits |-> 0, first_person |-> 0,
     emotional |-> 0, bias_hits |-> NoBias, extractive |-> None]

NoAi == [configured |-> FALSE, failed |-> FALSE, sections |-> NoSections]

AnalysisResult(summary, scam_notes, subjective_notes, bias_notes, ai_sections) ==
    [summary |-> summary, scam_notes |-> scam_notes,
     subjective_notes |-> subjective_notes, bias_notes |-> bias_notes,
     ai_sections |-> ai_sections]

NoReport == AnalysisResult(None, <<>>, <<>>, <<>>, {})

\* analyze lines 393-421, given the sections the advisory call returned
BuildReport(t, sections) ==
    AnalysisResult(
        IF TAG_SUMMARY \in DOMAIN sections THEN Some(sections[TAG_SUMMARY])
        ELSE t.extractive,
        IF TAG_SCAM \in DOMAIN sections THEN sections[TAG_SCAM]
        ELSE <<_scam_backup(_score_scam(t))>>,
        IF TAG_OBJECTIVITY \in DOMAIN sections THEN sections[TAG_OBJECTIVITY]
        ELSE <<_objectivity_backup(_score_subjectivity(t)).notes>>,
        IF TAG_BIAS \in DOMAIN sections THEN sections[TAG_BIAS]
        ELSE <<_bias_backup(_score_biases(t)).notes>>,
        {TAG_DISPLAY[tag] : tag \in DOMAIN sections})

---------------------------------------------------------------------------
(* services/scam_service.py and services/objectivity_service.py: the review *)

MaxSentences == 5                 \* longest advisory reply, in sentences
REVIEW_MAX_SENTENCES == 4         \* settings.*_review_max_sentences

\* the classifier probabilities and thresholds tried, in units of 1/ProbScale
ReviewProbs == {0, 4999, 5000, 7500, ProbScale}
ReviewThresholds == {0, 5000, ProbScale}

\* exceptions of the openai client that the services name in their except
\* clause (APIConnectionError and APITimeoutError are subclasses of APIError)
CaughtFailures == {"AuthenticationError", "RateLimitError", "APIError",
                   "APIConnectionError", "APITimeoutError"}

\* exceptions of reading response.choices[0].message.content on a reply that
\* lacks the fields
MalformedFailures == {"IndexError", "TypeError", "AttributeError"}

\* how the advisory call of the two services can end: an exception of the
\* client, a reply that cannot be read, or a reply of n sentences (n = 0 is
\* an empty or absent content)
ReviewOutcomes ==
    {[kind |-> "raise", error |-> e, sentences |-> 0] : e \in CaughtFailures}
    \cup {[kind |-> "malformed", error |-> e, sentences |-> 0] : e \in MalformedFailures}
    \cup {[kind |-> "reply", error |-> "None", sentences |-> n] : n \in 0..MaxSentences}

FALLBACK_REVIEW == <<"fallback", "review">>
NOTE_REVIEW_FAILED == "OpenAI review failed; fallback review was used."

\* _truncate_sentences(text, max_sentences) on a reply of n sentences
_truncate_sentences(n, max_sentences) == Words(Min(n, max_sentences), "sentence")

NoOutcome == [kind |-> "none", error |-> "None", sentences |-> 0]

NoReview ==
    [service |-> "none", prob |-> 0, threshold |-> 0, review_with_llm |-> FALSE,
     configured |-> FALSE, outcome |-> NoOutcome]

ReviewResult(flagged, llm_review, llm_review_model, notes, raised) ==
    [flagged |-> flagged, llm_review |-> llm_review,
     llm_review_model |-> llm_review_model, notes |-> notes, raised |-> raised]

NoReviewResult == ReviewResult(FALSE, None, "None", "None", "None")

\* the except clause of detect_scam / detect_objectivity
ReviewCaught(e) == e \in CaughtFailures \cup {"ValueError"}

\* detect_scam / detect_objectivity from the try block on, given how the
\* advisory call ended
ReviewAfterCall(r, out) ==
    IF out.kind = "reply"
    THEN ReviewResult(TRUE,
                      Some(_truncate_sentences(out.sentences, REVIEW_MAX_SENTENCES)),
                      "gpt-4o-mini", "None", "None")
    ELSE IF ReviewCaught(out.error)
    THEN ReviewResult(TRUE, Some(FALLBACK_REVIEW), "fallback-local",
                      NOTE_REVIEW_FAILED, "None")
    ELSE ReviewResult(TRUE, None, "None", "None", out.error)

---------------------------------------------------------------------------
(* routers/ and services/firebase_service.py, services/audio_service.py *)

MaxRecords == 2      \* POST /audio requests answered 200 per run

\* every ExtractionResult extract(input: str) of extractor_service.py returns
ServiceResults ==
    {Service_text_result(t) :
        t \in {x \in TextInputs : ValidText(x) /\ x.words # <<>> /\ ~_is_url(x)
                                  /\ x.length <= MAX_TEXT_LENGTH}}
    \cup {Failure("url", "newspaper", MSG_DOMAIN)}
    \cup {Service_generic_result(u, r) :
            u \in {x \in Urls : Service_detect_url_type(x) = "generic"
                                /\ ~KnownPaywallDomain(x)},
            r \in NewspaperResponses}
    \cup {Service_reddit_result(r) : r \in RedditResponses}
    \cup {Service_pdf_result(r) : r \in DocumentResponses}

\* how await extract(request.input) ends in a route: a ValueError or a result
ExtractOutcomes ==
    {[raised |-> "ValueError", result |-> NoResult]}
    \cup {[raised |-> "None", result |-> r] : r \in ServiceResults}

\* routes that hand extract an ExtractRequest instead of a str: input.strip()
\* (extractor_service.py line 347) raises AttributeError, which the route's
\* "except ValueError" does not catch
RequestObjectRoutes == {"pdf", "report", "scam", "objectivity", "sentiment"}

HTTP_200 == 200
HTTP_404 == 404
HTTP_422 == 422
HTTP_500 == 500

Response(st, id, body) == [status |-> st, id |-> id, body |-> body]
NoResponse == Response(0, 0, "none")
NoHttp == [route |-> "none", id |-> 0]
NoAudio == [bytes |-> "none", id |-> 0]

AudioBytes == {"mp3 of elevenlabs", "mp3 of gtts"}

\* firebase_service.save_audio: how _init_firebase and the two uploads end
SaveOutcomes == {"ok", "metadata upload failed", "audio upload failed"}

\* the bucket after _run of save_audio: metadata.json first, audio.mp3 second
Uploaded(store, id, bytes, outcome) ==
    [store EXCEPT
        !.meta = IF store.configured /\ outcome \in {"ok", "audio upload failed"}
                 THEN @ \cup {<<"audio", id>>} ELSE @,
        !.blob = IF store.configured /\ outcome = "ok"
                 THEN @ \cup {<<"audio", id, bytes>>} ELSE @]

\* what save_audio's try block raises
SaveFailure(store, outcome) ==
    IF ~store.configured THEN "RuntimeError"
    ELSE IF outcome # "ok" THEN "Exception"
    ELSE "None"

\* save_audio without its try/except
save_audio_unguarded(store, id, bytes, outcome) ==
    [store |-> Uploaded(store, id, bytes, outcome),
     failure |-> SaveFailure(store, outcome),
     raised |-> SaveFailure(store, outcome)]

\* save_audio with the two uploads in the other order
save_audio_blob_first(store, id, bytes, outcome) ==
    [store |-> [store EXCEPT
                  !.blob = IF store.configured /\ outcome \in {"ok", "audio upload failed"}
                           THEN @ \cup {<<"audio", id, bytes>>} ELSE @,
                  !.meta = IF store.configured
                           THEN @ \cup {<<"audio", id>>} ELSE @],
     failure |-> SaveFailure(store, outcome),
     raised |-> "None"]

\* save_audio(record_id, metadata, mp3_bytes): the bucket afterwards; every
\* exception (not configured, either upload) is logged and swallowed
save_audio(store, id, bytes, outcome) ==
    [store |-> Uploaded(store, id, bytes, outcome),
     failure |-> SaveFailure(store, outcome),
     raised |-> "None"]

\* get_clearway / get_audio, given whether the bucket answers
get_record(store, kind, id, reachable) ==
    IF ~store.configured THEN Response(HTTP_500, id, "RuntimeError")
    ELSE IF ~reachable THEN Response(HTTP_500, id, "Exception")
    ELSE IF <<kind, id>> \notin store.meta THEN Response(HTTP_404, id, "none")
    ELSE IF \E b \in store.blob : b[1] = kind /\ b[2] = id
    THEN Response(HTTP_200, id, (CHOOSE b \in store.blob : b[1] = kind /\ b[2] = id)[3])
    ELSE Response(HTTP_500, id, "NotFound")

\* get_audio answering with the newest record, whatever the id asked for
get_audio_newest(store, id, reachable) ==
    IF store.configured /\ reachable /\ store.blob # {}
    THEN Response(HTTP_200, id,
                  (CHOOSE b \in store.blob : \A o \in store.blob : o[2] <= b[2])[3])
    ELSE get_record(store, "audio", id, reachable)

get_audio(store, id, reachable) == get_record(store, "audio", id, reachable)
get_clearway(store, id, reachable) == get_record(store, "clearview", id, reachable)

\* the check between extraction and analysis dropped
clearview_rejects_never(extraction) == FALSE

\* clearview_route line 35
clearview_rejects(extraction) ==
    extraction.error # "None" \/ extraction.content = <<>>

---------------------------------------------------------------------------
(* The lazily loaded classifiers of scam_service.py, objectivity_service.py *)
(* and sentiment_service.py                                                 *)

MaxThreads == 2      \* executor threads running a classifier at the same time
MaxCalls == 3        \* classifier runs handed to the executor per process

Threads == 1..MaxThreads

\* _scam_classifier, _objectivity_classifier, _bias_classifier
Kinds == {"scam", "objectivity", "bias"}

\* a thread of the default executor with nothing to run
NoWorker == [pc |-> "idle", kind |-> "none", local |-> 0, handle |-> 0]

---------------------------------------------------------------------------
(* _normalize of extractor_service.py (lines 22-29) and of extractor.py     *)
(* (lines 38-45, the same text), on character sequences                     *)

MaxText == 5         \* longest text, in characters, handed to _normalize

\* carriage return, line feed, tab, space, form feed, a letter
TextChars == {"\r", "\n", "\t", " ", "\f", "a"}

\* what str.strip() removes
Whitespace == {"\r", "\n", "\t", " ", "\f"}

\* where str.splitlines() breaks a line
LineBreaks == {"\r", "\n", "\f"}

\* text.replace("\r\n", "\n")
RECURSIVE ReplaceCRLF(_)
ReplaceCRLF(s) ==
    IF s = <<>> THEN <<>>
    ELSE IF StartsWith(s, <<"\r", "\n">>)
    THEN <<"\n">> \o ReplaceCRLF(SubSeq(s, 3, Len(s)))
    ELSE <<Head(s)>> \o ReplaceCRLF(Tail(s))

\* text.replace(a, b) for single characters
ReplaceChar(s, a, b) == [i \in 1..Len(s) |-> IF s[i] = a THEN b ELSE s[i]]

\* re.sub(r" {2,}", " ", text)
RECURSIVE CollapseSpaces(_)
CollapseSpaces(s) ==
    IF s = <<>> THEN <<>>
    ELSE IF StartsWith(s, <<" ", " ">>) THEN CollapseSpaces(Tail(s))
    ELSE <<Head(s)>> \o CollapseSpaces(Tail(s))

\* re.sub(r"\n{3,}", "\n\n", text)
RECURSIVE CollapseNewlines(_)
CollapseNewlines(s) ==
    IF s = <<>> THEN <<>>
    ELSE IF StartsWith(s, <<"\n", "\n", "\n">>) THEN CollapseNewlines(Tail(s))
    ELSE <<Head(s)>> \o CollapseNewlines(Tail(s))

\* str.strip()
RECURSIVE str_lstrip(_)
str_lstrip(s) ==
    IF s # <<>> /\ Head(s) \in Whitespace THEN str_lstrip(Tail(s)) ELSE s

RECURSIVE str_rstrip(_)
str_rstrip(s) ==
    IF s # <<>> /\ s[Len(s)] \in Whitespace THEN str_rstrip(SubSeq(s, 1, Len(s) - 1)) ELSE s

str_strip(s) == str_rstrip(str_lstrip(s))

\* str.splitlines(): the lines without their breaks; "\r\n" is one break and
\* a break at the very end opens no further line
RECURSIVE SplitLines(_)
SplitLines(s) ==
    IF s = <<>> THEN <<>>
    ELSE IF \A i \in 1..Len(s) : s[i] \notin LineBreaks THEN <<s>>
    ELSE LET i == CHOOSE k \in 1..Len(s) :
                    s[k] \in LineBreaks /\ \A j \in 1..(k - 1) : s[j] \notin LineBreaks
             next == IF s[i] = "\r" /\ i < Len(s) /\ s[i + 1] = "\n" THEN i + 2 ELSE i + 1
         IN  <<SubSeq(s, 1, i - 1)>> \o SplitLines(SubSeq(s, next, Len(s)))

\* "\n".join(lines)
RECURSIVE JoinLines(_)
JoinLines(lines) ==
    IF lines = <<>> THEN <<>>
    ELSE IF Len(lines) = 1 THEN lines[1]
    ELSE lines[1] \o <<"\n">> \o JoinLines(Tail(lines))

\* [line.strip() for line in text.splitlines()]
StripLines(s) == LET lines == SplitLines(s) IN [i \in 1..Len(lines) |-> str_strip(lines[i])]

\* _normalize with the runs of line ends collapsed before the lines are stripped
_normalize_newlines_first(text) ==
    str_strip(JoinLines(StripLines(CollapseNewlines(CollapseSpaces(
        ReplaceChar(ReplaceChar(ReplaceCRLF(text), "\r", "\n"), "\t", " "))))))

\* _normalize(text)
_normalize(text) ==
    str_strip(CollapseNewlines(JoinLines(StripLines(CollapseSpaces(
        ReplaceChar(ReplaceChar(ReplaceCRLF(text), "\r", "\n"), "\t", " "))))))

---------------------------------------------------------------------------
(* clean_url of extractor_service.py (lines 106-125) and of extractor.py    *)
(* (lines 111-130, the same text).  A URL is [scheme, host, path, query,   *)
(* fragment]; its query is the sequence of its k=v pieces as written.       *)

MaxParams == 3       \* most k=v pieces in a query string

\* tracking_params
TRACKING_PARAMS == {
    <<"u","t","m","_","s","o","u","r","c","e">>,
    <<"u","t","m","_","m","e","d","i","u","m">>,
    <<"u","t","m","_","c","a","m","p","a","i","g","n">>,
    <<"u","t","m","_","t","e","r","m">>,
    <<"u","t","m","_","c","o","n","t","e","n","t">>,
    <<"f","b","c","l","i","d">>,
    <<"g","c","l","i","d">>,
    <<"r","e","f">>,
    <<"s","o","u","r","c","e">>,
    <<"m","c","_","c","i","d">>,
    <<"m","c","_","e","i","d">>,
    <<"i","g","s","h","i","d">>,
    <<"s","i">>,
    <<"f","e","a","t","u","r","e">> }

\* keys and raw values a query can hold; "%20" and "+" both stand for a space,
\* and clean_url is handed only the first of the two
QueryKeys == {<<"i","d">>, <<"q">>, <<"R","e","f">>, <<"u","t","m","_","t","e","r","m">>}
QueryValues == {"", "1", "%20"}

RECURSIVE SeqsUpTo(_, _)
SeqsUpTo(S, n) ==
    IF n = 0 THEN {<<>>}
    ELSE LET shorter == SeqsUpTo(S, n - 1)
         IN  shorter \cup {Append(q, x) : q \in {r \in shorter : Len(r) = n - 1}, x \in S}

Queries == SeqsUpTo({[k |-> k, v |-> v] : k \in QueryKeys, v \in QueryValues}, MaxParams)

\* the URLs handed to clean_url; scheme "" is a URL written without one
CleanUrlInputs ==
    {[scheme |-> s, host |-> EXAMPLE, path |-> PathA, query |-> q, fragment |-> f] :
        s \in {"", "http", "https"}, q \in Queries, f \in {"", "top"}}

\* unquote of a value as parse_qs does it, and quote_plus as urlencode does it
Unquote(v) == IF v \in {"%20", "+"} THEN " " ELSE v
QuotePlus(v) == IF v = " " THEN "+" ELSE v

\* the keys of a parsed query in the order of their first occurrence
RECURSIVE FirstKeys(_)
FirstKeys(pairs) ==
    IF pairs = <<>> THEN <<>>
    ELSE LET before == FirstKeys(SubSeq(pairs, 1, Len(pairs) - 1))
             k == pairs[Len(pairs)].k
         IN  IF \E i \in 1..Len(before) : before[i] = k THEN before
             ELSE Append(before, k)

\* parse_qs(query): pieces with a blank value are left out
\* (keep_blank_values=False), the values are unquoted and gathered per key
parse_qs(query) ==
    LET Kept(p) == p.v # ""
        kept == SelectSeq(query, Kept)
        pairs == [i \in 1..Len(kept) |-> [k |-> kept[i].k, v |-> Unquote(kept[i].v)]]
        keys == FirstKeys(pairs)
    IN  [i \in 1..Len(keys) |->
            LET Mine(p) == p.k = keys[i]
                mine == SelectSeq(pairs, Mine)
            IN  [k |-> keys[i], vs |-> [j \in 1..Len(mine) |-> mine[j].v]]]

\* urlencode(params, doseq=True): one k=v piece per value, key by key
RECURSIVE urlencode(_)
urlencode(params) ==
    IF params = <<>> THEN <<>>
    ELSE [j \in 1..Len(params[1].vs) |-> [k |-> params[1].k, v |-> QuotePlus(params[1].vs[j])]]
         \o urlencode(Tail(params))

\* clean_url that stops at the first tracking parameter it removes
clean_url_drop_one(url) ==
    LET query_params == parse_qs(url.query)
        Clean(p) == Lower(p.k) \notin TRACKING_PARAMS
        first == IF \E i \in 1..Len(query_params) : ~Clean(query_params[i])
                 THEN CHOOSE i \in 1..Len(query_params) :
                        /\ ~Clean(query_params[i])
                        /\ \A j \in 1..(i - 1) : Clean(query_params[j])
                 ELSE 0
        cleaned_params == IF first = 0 THEN query_params
                          ELSE SubSeq(query_params, 1, first - 1)
                               \o SubSeq(query_params, first + 1, Len(query_params))
    IN  [url EXCEPT !.scheme = IF @ = "" THEN "https" ELSE @,
                    !.query = urlencode(cleaned_params)]

\* clean_url(url)
clean_url(url) ==
    LET query_params == parse_qs(url.query)
        Clean(p) == Lower(p.k) \notin TRACKING_PARAMS
        cleaned_params == SelectSeq(query_params, Clean)
    IN  [url EXCEPT !.scheme = IF @ = "" THEN "https" ELSE @,
                    !.query = urlencode(cleaned_params)]

---------------------------------------------------------------------------
(* services/analysis_service.py: the texts the scorers are applied to *)

\* a text of punctuation only ("!!" or "?!"): one whitespace-delimited word,
\* no \b\w+\b word
PunctuationOnly(e) == [NoDoc EXCEPT !.words = 1, !.exclaims = e]

\* a text that repeats every scam phrase and every bias keyword h times
Saturated(d, h) ==
    [d EXCEPT !.scam_hits = [i \in 1..6 |-> h],
              !.bias_hits = [c \in BIAS_CATEGORIES |-> h]]

\* the empty and the whitespace-only text are NoDoc: no word, no mark
ScoreTexts ==
    Docs \cup {NoDoc}
         \cup {PunctuationOnly(e) : e \in 0..MaxStyle}
         \cup {Saturated(d, BIAS_SATURATION + 2) : d \in Docs}

\* most phrases a text gains in one scam category
MaxGain == 2

\* the text t with k more matched phrases of scam category i, its word
\* count, capitals and exclamation marks as before
WithMorePhrases(t, i, k) == [t EXCEPT !.scam_hits[i] = @ + k]

---------------------------------------------------------------------------
(* services/analysis_service.py and services/summarizer_service.py:
   the extractive summarizer *)

MaxDoc == 3               \* longest free document, in sentences
MIN_SENTENCE_WORDS == 4   \* candidates under 4 words are discarded

\* A document is the sequence of its sentences.  A sentence has keys
\* occurrences of the one keyword the sentences share and fill other
\* non-stop words that occur nowhere else in the document (so the sentences
\* of a document are pairwise different strings); terminated tells whether
\* it ends with ".", "!" or "?" (a sentence at the end of a line may not).
SentenceKinds == [keys : 0..1, fill : 2..4, terminated : BOOLEAN]

\* ten four-word sentences, the keyword in sentences 2, 5 and 9 only;
\* in the second document sentence 9 ends its line without a full stop
SyntheticDocs ==
    {[i \in 1..10 |->
        [keys |-> IF i \in {2, 5, 9} THEN 1 ELSE 0, fill |-> 3,
         terminated |-> (i # u)]] : u \in {0, 9}}

Documents == (SeqsUpTo(SentenceKinds, MaxDoc) \ {<<>>}) \cup SyntheticDocs

\* the sentences kept as candidates: len(s.split()) >= 4
Candidates(text) ==
    {i \in 1..Len(text) : text[i].keys + text[i].fill >= MIN_SENTENCE_WORDS}

\* word_freq of the keyword over the whole text; every other word has 1
KeywordFreq(text) == SumTo([i \in 1..Len(text) |-> text[i].keys], Len(text))

\* scores[sent] * max_freq: the sum over the words of the sentence of their
\* frequency (the division by max_freq is common to all sentences)
SentenceScores(text) ==
    [i \in 1..Len(text) |-> text[i].keys * KeywordFreq(text) + text[i].fill]

\* heapq.nlargest(n, scores, key=scores.get): as sorted(..., reverse=True)[:n],
\* which keeps the earlier of two equal scores first
RECURSIVE nlargest(_, _, _)
nlargest(n, cands, scores) ==
    IF n = 0 \/ cands = {} THEN <<>>
    ELSE LET best == CHOOSE i \in cands : \A j \in cands :
                         \/ scores[i] > scores[j]
                         \/ scores[i] = scores[j] /\ i <= j
         IN  <<best>> \o nlargest(n - 1, cands \ {best}, scores)

\* sorted(top, key=position in the text)
RECURSIVE SortedByPosition(_)
SortedByPosition(S) ==
    IF S = {} THEN <<>>
    ELSE LET first == CHOOSE i \in S : \A j \in S : i <= j
         IN  <<first>> \o SortedByPosition(S \ {first})

Range(q) == {q[i] : i \in 1..Len(q)}

\* analysis_service._extractive_summarize: the positions of the sentences of
\* the summary, in the order of the summary; None when there is no candidate
_extractive_summarize(text, sentence_count) ==
    IF Candidates(text) = {} THEN None
    ELSE LET top == nlargest(sentence_count, Candidates(text), SentenceScores(text))
         IN  Some(SortedByPosition(Range(top)))

\* summarizer_service._extractive_summarize: a candidate without a final
\* mark is given a "." and the selected sentences are sorted by
\* text.index(s) of that amended string, which is not in the text:
\* ValueError, caught by the except clause, no summary
summarizer_extractive_summarize(text, sentence_count) ==
    IF Candidates(text) = {} THEN None
    ELSE LET top == nlargest(sentence_count, Candidates(text), SentenceScores(text))
         IN  IF \E i \in Range(top) : ~text[i].terminated THEN None
             ELSE Some(SortedByPosition(Range(top)))

---------------------------------------------------------------------------
(* services/firebase_service.py: the steps of a save and of a get *)

RecordKinds == {"clearview", "audio"}

\* the bytes save_clearway / save_audio are handed
BlobOf(kind) == IF kind = "clearview" THEN "document.pdf" ELSE "audio.mp3"

NoSave == [pc |-> "idle", kind |-> "none", id |-> 0]
NoGet == [pc |-> "idle", kind |-> "none", id |-> 0, response |-> NoResponse]

---------------------------------------------------------------------------
(* services/scam_detection_service.py *)

\* the score_weight of the ten entries of SCAM_SIGNALS
SIGNAL_WEIGHTS == <<10, 20, 20, 25, 25, 15, 15, 30, 10, 10>>

SAFE_MAX == 20          \* _score_to_level: score <= 20 is safe
SUSPICIOUS_MAX == 55    \* score <= 55 is suspicious, above is high_risk
SCORE_MAX == 100

ScamLevels == {"safe", "suspicious", "high_risk"}

_score_to_level(score) ==
    IF score <= SAFE_MAX THEN "safe"
    ELSE IF score <= SUSPICIOUS_MAX THEN "suspicious"
    ELSE "high_risk"

\* _algorithmic_detect on a text in which the signals of triggered have a
\* keyword: (level, score)
_algorithmic_detect(triggered) ==
    LET total_score == SumTo([i \in 1..10 |->
                                IF triggered[i] THEN SIGNAL_WEIGHTS[i] ELSE 0], 10)
        score == Min(total_score, SCORE_MAX)
    IN  [level |-> _score_to_level(score), score |-> score]

\* what generate_content_async gives _gemini_detect: no key, an exception or
\* a text that is not the JSON asked for, or a JSON object with a level and
\* a score
GeminiReplies ==
    {[kind |-> k, level |-> "none", score |-> 0] : k \in {"unconfigured", "error"}}
    \cup {[kind |-> "json", level |-> l, score |-> s] :
            l \in ScamLevels \cup {"unknown"},
            s \in {-5, 0, 20, 21, 55, 56, 100, 150}}

\* _gemini_detect: raises, or returns the level of the reply as it is and
\* the score brought into 0..100
_gemini_detect(reply) ==
    IF reply.kind = "unconfigured" THEN [raised |-> "ValueError"]
    ELSE IF reply.kind = "error" THEN [raised |-> "Exception"]
    ELSE IF reply.level \notin ScamLevels THEN [raised |-> "ValueError"]
    ELSE [raised |-> "None", level |-> reply.level,
          score |-> Max(0, Min(SCORE_MAX, reply.score))]

\* detect_scam: the Gemini answer, or the algorithmic one when it raised
detect_scam(triggered, reply) ==
    LET g == _gemini_detect(reply)
    IN  IF g.raised = "None"
        THEN [level |-> g.level, score |-> g.score, method |-> "gemini"]
        ELSE [level |-> _algorithmic_detect(triggered).level,
              score |-> _algorithmic_detect(triggered).score,
              method |-> "algorithmic"]

---------------------------------------------------------------------------
(* services/sentiment_service.py: the transformer path *)

HIGH_BIAS == 8500    \* max_score >= 0.85 is high risk, in units of 1/ProbScale

ClassifierLabels == {"political", "gender"}

\* scores and cutoffs around the two thresholds, in units of 1/ProbScale
BiasLevels == {0, 5000, 7000, 8499, 8500, 8700, 9000, ProbScale}

\* what _run_bias_classifier_sync returns: label -> score, possibly empty
BiasScoreMaps ==
    UNION {[labels -> BiasLevels] : labels \in SUBSET ClassifierLabels}

\* max(bias_scores.values()) if bias_scores else 0.0
MaxScore(bias_scores) ==
    IF DOMAIN bias_scores = {} THEN 0
    ELSE CHOOSE v \in {bias_scores[k] : k \in DOMAIN bias_scores} :
             \A k \in DOMAIN bias_scores : bias_scores[k] <= v

\* _hf_modernbert_bias_analyze: the fields of the SentimentAnalysisResult
\* that depend on the classifier's scores and on the cutoff
_hf_modernbert_bias_analyze(bias_scores, bias_cutoff) ==
    LET selected_biases == {k \in DOMAIN bias_scores : bias_scores[k] >= bias_cutoff}
        max_score == MaxScore(bias_scores)
    IN  [bias_risk |-> IF max_score >= HIGH_BIAS THEN "high"
                       ELSE IF max_score >= bias_cutoff THEN "medium"
                       ELSE "low",
         method_used |-> "hf_modernbert_bias",
         bias_cutoff |-> bias_cutoff,
         bias_scores |-> bias_scores,
         biases_above_cutoff |-> selected_biases]

---------------------------------------------------------------------------
(* accessibility/elevenlabs_tts.py: split_text_into_chunks *)

MaxParagraphs == 2     \* most paragraphs of a text
MaxPerParagraph == 2   \* most sentences of a paragraph

\* A text is the sequence of its paragraphs, a paragraph the sequence of
\* the lengths of its sentences, which single spaces separate; a chunk is
\* its length, len(chunk).
SentenceLengths == {99, 100, 201}

\* TTSRequest.max_chars_per_chunk is between 200 and 6000
ChunkLimits == {200, 250}

Paragraphs == SeqsUpTo(SentenceLengths, MaxPerParagraph) \ {<<>>}
Texts == SeqsUpTo(Paragraphs, MaxParagraphs)

\* len(paragraph)
ParagraphLen(paragraph) == SumTo(paragraph, Len(paragraph)) + Len(paragraph) - 1

\* len(f"{buf}{sep}{piece}".strip()), sep being " " or "\n\n"
Joined(buf, sep, piece) == IF buf = 0 THEN piece ELSE buf + sep + piece

\* flush(): the buffer becomes a chunk unless it is blank
flush(st) ==
    [chunks |-> IF st.buf > 0 THEN Append(st.chunks, st.buf) ELSE st.chunks,
     buf |-> 0]

\* the loop over the sentences of a paragraph longer than max_chars
RECURSIVE AddSentences(_, _, _)
AddSentences(st, sentences, max_chars) ==
    IF sentences = <<>> THEN st
    ELSE LET sentence == Head(sentences)
             next == IF st.buf + sentence + 1 <= max_chars
                     THEN [st EXCEPT !.buf = Joined(@, 1, sentence)]
                     ELSE [flush(st) EXCEPT !.buf = sentence]
         IN  AddSentences(next, Tail(sentences), max_chars)

\* the body of the loop over the paragraphs
AddParagraph(st, paragraph, max_chars) ==
    IF ParagraphLen(paragraph) > max_chars
    THEN flush(AddSentences(st, paragraph, max_chars))
    ELSE IF st.buf + ParagraphLen(paragraph) + 2 <= max_chars
    THEN [st EXCEPT !.buf = Joined(@, 2, ParagraphLen(paragraph))]
    ELSE [flush(st) EXCEPT !.buf = ParagraphLen(paragraph)]

RECURSIVE AddParagraphs(_, _, _)
AddParagraphs(st, paragraphs, max_chars) ==
    IF paragraphs = <<>> THEN st
    ELSE AddParagraphs(AddParagraph(st, Head(paragraphs), max_chars),
                       Tail(paragraphs), max_chars)

\* split_text_into_chunks(text, max_chars): the lengths of the chunks
split_text_into_chunks(text, max_chars) ==
    IF text = <<>> THEN <<>>
    ELSE flush(AddParagraphs([chunks |-> <<>>, buf |-> 0], text, max_chars)).chunks

---------------------------------------------------------------------------
(* The state machine of one request *)

Init ==
    /\ pc = "idle"
    /\ req = NoReq
    /\ tier1 = NoFetch
    /\ tier2 = None
    /\ calls = <<>>
    /\ result = NoResult
    /\ apc = "idle"
    /\ atext = NoDoc
    /\ prob = 0
    /\ ai = NoAi
    /\ report = NoReport
    /\ rpc = "idle"
    /\ rreq = NoReview
    /\ rres = NoReviewResult
    /\ hpc = "idle"
    /\ hreq = NoHttp
    /\ hext = NoResult
    /\ hcalls = <<>>
    /\ haudio = NoAudio
    /\ hresp = NoResponse
    /\ hposted = <<>>
    /\ hstore \in {[configured |-> c, meta |-> {}, blob |-> {}] : c \in BOOLEAN}
    /\ classifier = [k \in Kinds |-> 0]
    /\ built = [k \in Kinds |-> 0]
    /\ worker = [t \in Threads |-> NoWorker]
    /\ submitted = 0
    /\ npc = "input"
    /\ ntext = <<>>
    /\ nonce = <<>>
    /\ ntwice = <<>>
    /\ fpc = "idle"
    /\ farg = <<>>
    /\ fres = <<>>
    /\ saver = NoSave
    /\ getter = NoGet

Finish(r) ==
    /\ pc' = "done"
    /\ result' = r

Await(where) ==
    /\ pc' = where
    /\ result' = result

\* extractor.py extract_from_url: classify, then enter the adapter up to its
\* first await
Extractor_extract_from_url ==
    /\ pc = "idle"
    /\ \E u \in Urls \cup {NoUrl} :
        /\ req' = [module |-> "extractor", kind |-> "url", url |-> u, text |-> NoText]
        /\ LET ty == Extractor_detect_url_type(u)
           IN  CASE ty = "generic" -> Await("static")
                 [] ty = "reddit" -> Await("reddit")
                 [] ty = "youtube" ->
                        IF get_youtube_video_id(u) THEN Await("transcript")
                        ELSE Finish(Failure("url", "youtube_transcript",
                                            "Could not extract video ID from URL"))
                 [] ty = "twitter" ->
                        Finish(Failure("url", "twitter", "Twitter/X content cannot be extracted"))
                 [] ty = "pdf_url" ->
                        Finish(Failure("url", "pdf_url", "PDF extraction from URLs is not supported"))
    /\ UNCHANGED <<tier1, tier2, calls, non_evars>>

\* extract_generic, tier 1: the static fetch returns
Extractor_tier1 ==
    /\ pc = "static"
    /\ \E resp \in StaticResponsesFor(req.url) :
        LET t1 == extract_with_beautifulsoup(req.url, resp)
        IN  /\ tier1' = resp
            /\ calls' = Append(calls, "static")
            /\ LET after == Extractor_after_tier1(t1)
               IN  CASE after = "paywall" ->
                            Finish(Failure("url", "beautifulsoup", t1.paywall))
                     [] after = "render" -> Await("render")
                     [] after = "finish" ->
                            Finish(Extractor_finish(t1.content, "beautifulsoup"))
    /\ UNCHANGED <<req, tier2, non_evars>>

\* extract_generic, tier 2: the render returns (or fails), then the floor
Extractor_tier2 ==
    /\ pc = "render"
    /\ \E pw \in RenderResponsesFor(req.url) :
        LET content == extract_with_beautifulsoup(req.url, tier1).content
            kept == Extractor_select(content, pw)
        IN  /\ tier2' = pw
            /\ calls' = Append(calls, "render")
            /\ Finish(Extractor_finish(kept.content, kept.method))
    /\ UNCHANGED <<req, tier1, non_evars>>

Extractor_extract_reddit ==
    /\ pc = "reddit"
    /\ req.module = "extractor"
    /\ \E resp \in RedditResponses :
        /\ tier1' = resp
        /\ calls' = Append(calls, "reddit_json")
        /\ Finish(Extractor_reddit_result(resp))
    /\ UNCHANGED <<req, tier2, non_evars>>

Extractor_extract_youtube ==
    /\ pc = "transcript"
    /\ \E resp \in DocumentResponses :
        /\ tier1' = resp
        /\ calls' = Append(calls, "youtube_transcript")
        /\ Finish(Extractor_youtube_result(resp))
    /\ UNCHANGED <<req, tier2, non_evars>>

Extractor_extract_from_text ==
    /\ pc = "idle"
    /\ \E t \in TextInputs :
        /\ ValidText(t)
        /\ req' = [module |-> "extractor", kind |-> "text", url |-> NoUrl, text |-> t]
        /\ Finish(Extractor_text_result(t))
    /\ UNCHANGED <<tier1, tier2, calls, non_evars>>

\* extractor.py extract with no input or with more than one of text, url, file
Extractor_extract_provided ==
    /\ pc = "idle"
    /\ \E provided \in {0, 2, 3} :
        /\ req' = [module |-> "extractor",
                   kind |-> IF provided = 0 THEN "no input" ELSE "several inputs",
                   url |-> NoUrl, text |-> NoText]
        /\ Finish(Extractor_provided_result(provided))
    /\ UNCHANGED <<tier1, tier2, calls, non_evars>>

\* extractor.py extract(file=...): extension check, read, decode, normalize
Extractor_extract_from_file ==
    /\ pc = "idle"
    /\ \E t \in TextInputs, allowed \in BOOLEAN :
        /\ ValidText(t)
        /\ req' = [module |-> "extractor", kind |-> "file", url |-> NoUrl, text |-> t]
        /\ Finish(Extractor_file_result(allowed, t))
    /\ UNCHANGED <<tier1, tier2, calls, non_evars>>

\* extractor_service.py extract_from_url: classify, then enter the adapter up
\* to its first await (extract_generic returns at once for a listed domain)
Service_extract_from_url ==
    /\ pc = "idle"
    /\ \E u \in Urls :
        /\ req' = [module |-> "service", kind |-> "url", url |-> u, text |-> NoText]
        /\ LET ty == Service_detect_url_type(u)
           IN  CASE ty = "generic" ->
                        IF KnownPaywallDomain(u)
                        THEN Finish(Failure("url", "newspaper", MSG_DOMAIN))
                        ELSE Await("newspaper")
                 [] ty = "reddit" -> Await("reddit")
                 [] ty = "pdf_url" -> Await("pdf")
    /\ UNCHANGED <<tier1, tier2, calls, non_evars>>

Service_extract_generic ==
    /\ pc = "newspaper"
    /\ \E resp \in NewspaperResponses :
        /\ tier1' = resp
        /\ calls' = Append(calls, "newspaper")
        /\ Finish(Service_generic_result(req.url, resp))
    /\ UNCHANGED <<req, tier2, non_evars>>

Service_extract_reddit ==
    /\ pc = "reddit"
    /\ req.module = "service"
    /\ \E resp \in RedditResponses :
        /\ tier1' = resp
        /\ calls' = Append(calls, "reddit_json")
        /\ Finish(Service_reddit_result(resp))
    /\ UNCHANGED <<req, tier2, non_evars>>

Service_extract_pdf_url ==
    /\ pc = "pdf"
    /\ \E resp \in DocumentResponses :
        /\ tier1' = resp
        /\ calls' = Append(calls, "pdf_download")
        /\ Finish(Service_pdf_result(resp))
    /\ UNCHANGED <<req, tier2, non_evars>>

\* extractor_service.py extract, for an input that _is_url does not take for
\* a URL (an input it does take for one goes to extract_from_url): the two
\* ValueErrors, else extract_from_text
Service_extract_text ==
    /\ pc = "idle"
    /\ \E t \in TextInputs :
        /\ ValidText(t)
        /\ t.words = <<>> \/ ~_is_url(t)
        /\ req' = [module |-> "service", kind |-> "text", url |-> NoUrl, text |-> t]
        /\ IF t.words = <<>> \/ t.length > MAX_TEXT_LENGTH
           THEN pc' = "raised" /\ result' = result
           ELSE Finish(Service_text_result(t))
    /\ UNCHANGED <<tier1, tier2, calls, non_evars>>

\* the response is sent; the next request starts from scratch
Return ==
    /\ pc \in {"done", "raised"}
    /\ pc' = "idle"
    /\ req' = NoReq
    /\ tier1' = NoFetch
    /\ tier2' = None
    /\ calls' = <<>>
    /\ result' = NoResult
    /\ UNCHANGED non_evars

Next ==
    \/ Extractor_extract_from_url
    \/ Extractor_tier1
    \/ Extractor_tier2
    \/ Extractor_extract_reddit
    \/ Extractor_extract_youtube
    \/ Extractor_extract_from_text
    \/ Extractor_extract_provided
    \/ Extractor_extract_from_file
    \/ Service_extract_from_url
    \/ Service_extract_generic
    \/ Service_extract_reddit
    \/ Service_extract_pdf_url
    \/ Service_extract_text
    \/ Return

Spec == Init /\ [][Next]_vars

---------------------------------------------------------------------------
(* services/analysis_service.py: analyze *)

\* analyze up to the advisory call: the ValueError for an empty text; with no
\* OPENAI_API_KEY _openai_analyze returns {} at once and the report is built
analyze_begin ==
    /\ apc = "idle"
    /\ \E t \in Docs \cup {NoDoc}, configured \in BOOLEAN :
        /\ atext' = t
        /\ IF t.words = 0
           THEN apc' = "raised" /\ UNCHANGED <<ai, report>>
           ELSE IF ~configured
           THEN /\ ai' = NoAi
                /\ report' = BuildReport(t, NoSections)
                /\ apc' = "done"
           ELSE /\ ai' = [configured |-> TRUE, failed |-> FALSE, sections |-> NoSections]
                /\ report' = report
                /\ apc' = "openai"
    /\ UNCHANGED <<prob, non_avars>>

\* the advisory call ends: any exception gives {}, a reply is stripped and
\* parsed; then the report is built
analyze_openai ==
    /\ apc = "openai"
    /\ \/ /\ ai' = [ai EXCEPT !.failed = TRUE]
          /\ report' = BuildReport(atext, NoSections)
       \/ \E raw \in RawResponses :
            LET sections == _parse_sections(Strip(raw))
            IN  /\ ai' = [ai EXCEPT !.sections = sections]
                /\ report' = BuildReport(atext, sections)
    /\ apc' = "done"
    /\ UNCHANGED <<atext, prob, non_avars>>

analyze_return ==
    /\ apc \in {"done", "raised", "backup"}
    /\ apc' = "idle"
    /\ atext' = NoDoc
    /\ prob' = 0
    /\ ai' = NoAi
    /\ report' = NoReport
    /\ UNCHANGED non_avars

ANext ==
    \/ analyze_begin
    \/ analyze_openai
    \/ analyze_return

SpecAnalysis == Init /\ [][ANext]_vars

\* the backup messages applied to every probability of the 4-decimal grid
backup_messages ==
    /\ apc = "idle"
    /\ \E p \in 0..ProbScale :
        /\ prob' = p
        /\ report' = AnalysisResult(None, <<_scam_backup(p)>>,
                                    <<_objectivity_backup(p).notes>>, <<>>, {})
    /\ apc' = "backup"
    /\ UNCHANGED <<atext, ai, non_avars>>

BNext ==
    \/ backup_messages
    \/ analyze_return

SpecBackup == Init /\ [][BNext]_vars


---------------------------------------------------------------------------
(* detect_scam and detect_objectivity: one call *)

\* detect_scam / detect_objectivity up to the advisory call: the classifier
\* has run; no review unless flagged and asked for; with no key the review
\* is the fallback text at once
detect_begin ==
    /\ rpc = "idle"
    /\ \E sv \in {"scam", "objectivity"}, p \in ReviewProbs, th \in ReviewThresholds,
          rv \in BOOLEAN, cf \in BOOLEAN :
        LET r == [service |-> sv, prob |-> p, threshold |-> th,
                  review_with_llm |-> rv, configured |-> cf, outcome |-> NoOutcome]
            flagged == p >= th
        IN  /\ rreq' = r
            /\ IF ~(flagged /\ rv)
               THEN /\ rres' = ReviewResult(flagged, None, "None", "None", "None")
                    /\ rpc' = "done"
               ELSE IF ~cf
               THEN /\ rres' = ReviewResult(TRUE, Some(FALLBACK_REVIEW),
                                            "fallback-local", "None", "None")
                    /\ rpc' = "done"
               ELSE /\ rres' = rres
                    /\ rpc' = "openai"
    /\ UNCHANGED non_rvars

\* the advisory call ends
detect_openai ==
    /\ rpc = "openai"
    /\ \E out \in ReviewOutcomes :
        /\ rreq' = [rreq EXCEPT !.outcome = out]
        /\ rres' = ReviewAfterCall(rreq, out)
        /\ rpc' = IF rres'.raised = "None" THEN "done" ELSE "raised"
    /\ UNCHANGED non_rvars

detect_return ==
    /\ rpc \in {"done", "raised"}
    /\ rpc' = "idle"
    /\ rreq' = NoReview
    /\ rres' = NoReviewResult
    /\ UNCHANGED non_rvars

RNext ==
    \/ detect_begin
    \/ detect_openai
    \/ detect_return

SpecReview == Init /\ [][RNext]_vars

---------------------------------------------------------------------------
(* routers/: one HTTP request at a time *)

Call(name, outcome) == [call |-> name, outcome |-> outcome]

Respond(r) ==
    /\ hresp' = r
    /\ hpc' = "responded"

\* POST /clearview, lines 28-39: extract, then the check on the extraction
clearview_extract ==
    /\ hpc = "idle"
    /\ hreq' = [route |-> "POST /clearview", id |-> 0]
    /\ \E o \in ExtractOutcomes :
        /\ hext' = o.result
        /\ hcalls' = <<Call("extract", o.raised)>>
        /\ IF o.raised # "None" \/ clearview_rejects(o.result)
           THEN Respond(Response(HTTP_422, 0, "none"))
           ELSE hpc' = "gather" /\ hresp' = hresp
    /\ UNCHANGED <<haudio, hposted, hstore, non_hvars>>

\* POST /clearview, lines 42-49: the arguments of asyncio.gather are evaluated
\* in order; summarize(content, sentence_count) makes its coroutine, then
\* detect_scam(extraction.content) lacks the required argument threshold
\* (scam_service.py line 184) and raises TypeError out of the route
clearview_gather ==
    /\ hpc = "gather"
    /\ hcalls' = hcalls \o <<Call("summarize", "coroutine created"),
                             Call("detect_scam", "TypeError")>>
    /\ Respond(Response(HTTP_500, 0, "TypeError"))
    /\ UNCHANGED <<hreq, hext, haudio, hposted, hstore, non_hvars>>

\* POST /pdf, /report, /scam, /objectivity, /sentiment: extract is handed an
\* ExtractRequest; input.strip() raises AttributeError out of the route
request_object_route ==
    /\ hpc = "idle"
    /\ \E rt \in RequestObjectRoutes :
        hreq' = [route |-> rt, id |-> 0]
    /\ hcalls' = <<Call("extract", "AttributeError")>>
    /\ Respond(Response(HTTP_500, 0, "AttributeError"))
    /\ UNCHANGED <<hext, haudio, hposted, hstore, non_hvars>>

\* POST /audio, generate_audio lines 27-29: extract; an errored extraction is
\* a ValueError, which the route answers with 422
audio_extract ==
    /\ hpc = "idle"
    /\ Len(hposted) < MaxRecords
    /\ hreq' = [route |-> "POST /audio", id |-> 0]
    /\ \E o \in ExtractOutcomes :
        /\ hext' = o.result
        /\ hcalls' = <<Call("extract", o.raised)>>
        /\ IF o.raised # "None" \/ o.result.error # "None"
           THEN Respond(Response(HTTP_422, 0, "none"))
           ELSE hpc' = "tts" /\ hresp' = hresp
    /\ UNCHANGED <<haudio, hposted, hstore, non_hvars>>

\* generate_audio lines 31-57: ElevenLabs when a key is set, gTTS when there
\* is none or ElevenLabs failed; gTTS refuses an empty text and its errors are
\* neither ValueError nor RuntimeError
audio_tts ==
    /\ hpc = "tts"
    /\ \E key \in BOOLEAN, eleven_ok \in BOOLEAN, gtts_ok \in BOOLEAN :
        IF key /\ eleven_ok
        THEN /\ haudio' = [bytes |-> "mp3 of elevenlabs", id |-> Len(hposted) + 1]
             /\ hcalls' = Append(hcalls, Call("elevenlabs", "ok"))
             /\ hpc' = "save" /\ hresp' = hresp
        ELSE IF gtts_ok /\ hext.content # <<>>
        THEN /\ haudio' = [bytes |-> "mp3 of gtts", id |-> Len(hposted) + 1]
             /\ hcalls' = Append(hcalls, Call("gtts", "ok"))
             /\ hpc' = "save" /\ hresp' = hresp
        ELSE /\ haudio' = haudio
             /\ hcalls' = Append(hcalls, Call("gtts", "Exception"))
             /\ Respond(Response(HTTP_500, 0, "Exception"))
    /\ UNCHANGED <<hreq, hext, hposted, hstore, non_hvars>>

\* audio_route lines 29-49: save_audio, then the response with the bytes and
\* the X-Content-ID header
audio_save ==
    /\ hpc = "save"
    /\ \E outcome \in SaveOutcomes :
        LET sv == save_audio(hstore, haudio.id, haudio.bytes, outcome)
        IN  /\ hstore' = sv.store
            /\ hcalls' = Append(hcalls, Call("save_audio", sv.failure))
            /\ IF sv.raised # "None"
               THEN /\ Respond(Response(HTTP_500, 0, sv.raised))
                    /\ hposted' = hposted
               ELSE /\ Respond(Response(HTTP_200, haudio.id, haudio.bytes))
                    /\ hposted' = Append(hposted, haudio.bytes)
    /\ UNCHANGED <<hreq, hext, haudio, non_hvars>>

\* GET /audio/{record_id}
audio_get ==
    /\ hpc = "idle"
    /\ \E id \in 1..MaxRecords, reachable \in BOOLEAN :
        /\ hreq' = [route |-> "GET /audio", id |-> id]
        /\ hcalls' = <<Call("get_audio", IF reachable THEN "answered" ELSE "unreachable")>>
        /\ Respond(get_audio(hstore, id, reachable))
    /\ UNCHANGED <<hext, haudio, hposted, hstore, non_hvars>>

\* GET /clearview/{record_id}
clearview_get ==
    /\ hpc = "idle"
    /\ \E id \in 1..MaxRecords, reachable \in BOOLEAN :
        /\ hreq' = [route |-> "GET /clearview", id |-> id]
        /\ hcalls' = <<Call("get_clearway", IF reachable THEN "answered" ELSE "unreachable")>>
        /\ Respond(get_clearway(hstore, id, reachable))
    /\ UNCHANGED <<hext, haudio, hposted, hstore, non_hvars>>

\* the response is sent; the bucket and the client's record of ids remain
http_return ==
    /\ hpc = "responded"
    /\ hpc' = "idle"
    /\ hreq' = NoHttp
    /\ hext' = NoResult
    /\ hcalls' = <<>>
    /\ haudio' = NoAudio
    /\ hresp' = NoResponse
    /\ UNCHANGED <<hposted, hstore, non_hvars>>

HNext ==
    \/ clearview_extract
    \/ clearview_gather
    \/ request_object_route
    \/ audio_extract
    \/ audio_tts
    \/ audio_save
    \/ audio_get
    \/ clearview_get
    \/ http_return

SpecRoutes == Init /\ [][HNext]_vars

---------------------------------------------------------------------------
(* _run_*_classifier_sync on the threads of the default executor *)

\* loop.run_in_executor(None, _run_scam_classifier_sync, text)
run_in_executor(t, k) ==
    /\ worker[t].pc = "idle"
    /\ submitted < MaxCalls
    /\ submitted' = submitted + 1
    /\ worker' = [worker EXCEPT ![t] = [NoWorker EXCEPT !.pc = "check", !.kind = k]]
    /\ UNCHANGED <<classifier, built, non_lvars>>

\* _load_*_classifier_sync: if _classifier is not None: return _classifier
load_check(t) ==
    /\ worker[t].pc = "check"
    /\ worker' = [worker EXCEPT ![t] =
                    IF classifier[worker[t].kind] # 0
                    THEN [worker[t] EXCEPT !.pc = "run",
                                           !.handle = classifier[worker[t].kind]]
                    ELSE [worker[t] EXCEPT !.pc = "import"]]
    /\ UNCHANGED <<classifier, built, submitted, non_lvars>>

\* from transformers import pipeline; an ImportError becomes a ValueError
load_import(t) ==
    /\ worker[t].pc = "import"
    /\ \E installed \in BOOLEAN :
          worker' = [worker EXCEPT ![t].pc = IF installed THEN "pipeline" ELSE "raised"]
    /\ UNCHANGED <<classifier, built, submitted, non_lvars>>

\* pipeline(task=..., model=...) builds a new handle
load_pipeline(t) ==
    /\ worker[t].pc = "pipeline"
    /\ built' = [built EXCEPT ![worker[t].kind] = @ + 1]
    /\ worker' = [worker EXCEPT ![t].pc = "assign",
                                ![t].local = built[worker[t].kind] + 1]
    /\ UNCHANGED <<classifier, submitted, non_lvars>>

\* _classifier = <the handle just built>
load_assign(t) ==
    /\ worker[t].pc = "assign"
    /\ classifier' = [classifier EXCEPT ![worker[t].kind] = worker[t].local]
    /\ worker' = [worker EXCEPT ![t].pc = "return"]
    /\ UNCHANGED <<built, submitted, non_lvars>>

\* return _classifier: the global is read again
load_return(t) ==
    /\ worker[t].pc = "return"
    /\ worker' = [worker EXCEPT ![t].pc = "run",
                                ![t].handle = classifier[worker[t].kind]]
    /\ UNCHANGED <<classifier, built, submitted, non_lvars>>

\* classifier(chunks, truncation=True, max_length=512) on the handle obtained
run_classifier(t) ==
    /\ worker[t].pc = "run"
    /\ worker' = [worker EXCEPT ![t].pc = "done"]
    /\ UNCHANGED <<classifier, built, submitted, non_lvars>>

\* the executor thread is free again
worker_return(t) ==
    /\ worker[t].pc \in {"done", "raised"}
    /\ worker' = [worker EXCEPT ![t] = NoWorker]
    /\ UNCHANGED <<classifier, built, submitted, non_lvars>>

LNext ==
    \/ \E t \in Threads, k \in Kinds : run_in_executor(t, k)
    \/ \E t \in Threads : load_check(t)
    \/ \E t \in Threads : load_import(t)
    \/ \E t \in Threads : load_pipeline(t)
    \/ \E t \in Threads : load_assign(t)
    \/ \E t \in Threads : load_return(t)
    \/ \E t \in Threads : run_classifier(t)
    \/ \E t \in Threads : worker_return(t)

SpecLoader == Init /\ [][LNext]_vars

---------------------------------------------------------------------------
(* _normalize applied to a text and to its own result *)

\* the caller's text grows by one character
normalize_input ==
    /\ npc = "input"
    /\ Len(ntext) < MaxText
    /\ \E c \in TextChars : ntext' = Append(ntext, c)
    /\ UNCHANGED <<npc, nonce, ntwice, non_nvars>>

\* content = _normalize(text)
normalize_once ==
    /\ npc = "input"
    /\ nonce' = _normalize(ntext)
    /\ npc' = "once"
    /\ UNCHANGED <<ntext, ntwice, non_nvars>>

\* _normalize(content)
normalize_twice ==
    /\ npc = "once"
    /\ ntwice' = _normalize(nonce)
    /\ npc' = "twice"
    /\ UNCHANGED <<ntext, nonce, non_nvars>>

NNext ==
    \/ normalize_input
    \/ normalize_once
    \/ normalize_twice

SpecNormalize == Init /\ [][NNext]_vars

---------------------------------------------------------------------------
(* Helper functions called on their own *)

\* the call returns to its caller
helper_return ==
    /\ fpc # "idle"
    /\ fpc' = "idle"
    /\ farg' = <<>>
    /\ fres' = <<>>
    /\ UNCHANGED non_fvars

---------------------------------------------------------------------------
(* clean_url applied to a URL and to its own result *)

clean_url_call ==
    /\ fpc = "idle"
    /\ \E u \in CleanUrlInputs :
        /\ farg' = u
        /\ fres' = [once |-> clean_url(u), twice |-> clean_url(clean_url(u))]
    /\ fpc' = "clean_url"
    /\ UNCHANGED non_fvars

CNext ==
    \/ clean_url_call
    \/ helper_return

SpecCleanUrl == Init /\ [][CNext]_vars

---------------------------------------------------------------------------
(* _is_url applied to a trimmed input *)

is_url_call ==
    /\ fpc = "idle"
    /\ \E t \in TextInputs :
        /\ ValidText(t)
        /\ farg' = t
        /\ fres' = _is_url(t)
    /\ fpc' = "_is_url"
    /\ UNCHANGED non_fvars

UNext ==
    \/ is_url_call
    \/ helper_return

SpecIsUrl == Init /\ [][UNext]_vars

---------------------------------------------------------------------------
(* The three scorers applied to one text *)

score_call ==
    /\ fpc = "idle"
    /\ \E t \in ScoreTexts :
        /\ farg' = t
        /\ fres' = [scam |-> _score_scam(t),
                    subjectivity |-> _score_subjectivity(t),
                    biases |-> _score_biases(t)]
    /\ fpc' = "score"
    /\ UNCHANGED non_fvars

ScNext ==
    \/ score_call
    \/ helper_return

SpecScores == Init /\ [][ScNext]_vars

---------------------------------------------------------------------------
(* _score_scam applied to a text and to the same text with more phrases *)

score_scam_pair ==
    /\ fpc = "idle"
    /\ \E t \in ScoreTexts, i \in 1..6, k \in 1..MaxGain :
        /\ farg' = [a |-> t, b |-> WithMorePhrases(t, i, k)]
        /\ fres' = [a |-> _score_scam(t),
                    b |-> _score_scam(WithMorePhrases(t, i, k))]
    /\ fpc' = "_score_scam"
    /\ UNCHANGED non_fvars

SpNext ==
    \/ score_scam_pair
    \/ helper_return

SpecScamPair == Init /\ [][SpNext]_vars

---------------------------------------------------------------------------
(* The two extractive summarizers applied to one document *)

extractive_summarize_call ==
    /\ fpc = "idle"
    /\ \E text \in Documents, sentence_count \in 1..MaxDoc :
        /\ farg' = [text |-> text, sentence_count |-> sentence_count]
        /\ fres' = [analysis |-> _extractive_summarize(text, sentence_count),
                    summarizer |->
                        summarizer_extractive_summarize(text, sentence_count)]
    /\ fpc' = "_extractive_summarize"
    /\ UNCHANGED non_fvars

XNext ==
    \/ extractive_summarize_call
    \/ helper_return

SpecSummarize == Init /\ [][XNext]_vars

---------------------------------------------------------------------------
(* save_clearway / save_audio and get_clearway / get_audio, step by step,
   one save and one get at a time on the same bucket *)

\* save_*: _init_firebase; RuntimeError when not configured, swallowed
save_init ==
    /\ saver.pc = "idle"
    /\ \E kind \in RecordKinds, id \in 1..MaxRecords :
        saver' = [pc |-> IF hstore.configured THEN "metadata" ELSE "failed",
                  kind |-> kind, id |-> id]
    /\ UNCHANGED <<hstore, getter, non_store>>

\* _run: meta_blob.upload_from_string(...) stores metadata.json or raises
save_upload_metadata ==
    /\ saver.pc = "metadata"
    /\ \E ok \in BOOLEAN :
        IF ok
        THEN /\ hstore' = [hstore EXCEPT !.meta = @ \cup {<<saver.kind, saver.id>>}]
             /\ saver' = [saver EXCEPT !.pc = "blob"]
        ELSE /\ hstore' = hstore
             /\ saver' = [saver EXCEPT !.pc = "failed"]
    /\ UNCHANGED <<getter, non_store>>

\* _run: the second upload_from_string stores the document or raises
save_upload_blob ==
    /\ saver.pc = "blob"
    /\ \E ok \in BOOLEAN :
        IF ok
        THEN /\ hstore' = [hstore EXCEPT
                    !.blob = @ \cup {<<saver.kind, saver.id, BlobOf(saver.kind)>>}]
             /\ saver' = [saver EXCEPT !.pc = "saved"]
        ELSE /\ hstore' = hstore
             /\ saver' = [saver EXCEPT !.pc = "failed"]
    /\ UNCHANGED <<getter, non_store>>

\* save_* returns None, after logger.warning when an exception was caught
save_return ==
    /\ saver.pc \in {"saved", "failed"}
    /\ saver' = NoSave
    /\ UNCHANGED <<hstore, getter, non_store>>

\* get_*: _init_firebase raises RuntimeError when not configured
get_init ==
    /\ getter.pc = "idle"
    /\ \E kind \in RecordKinds, id \in 1..MaxRecords :
        getter' = IF hstore.configured
                  THEN [pc |-> "metadata", kind |-> kind, id |-> id,
                        response |-> NoResponse]
                  ELSE [pc |-> "responded", kind |-> kind, id |-> id,
                        response |-> Response(HTTP_500, id, "RuntimeError")]
    /\ UNCHANGED <<hstore, saver, non_store>>

\* _run: meta_blob.exists(); None (404) when there is no metadata.json,
\* else its text is downloaded
get_metadata ==
    /\ getter.pc = "metadata"
    /\ getter' = IF <<getter.kind, getter.id>> \in hstore.meta
                 THEN [getter EXCEPT !.pc = "blob"]
                 ELSE [getter EXCEPT !.pc = "responded",
                          !.response = Response(HTTP_404, getter.id, "none")]
    /\ UNCHANGED <<hstore, saver, non_store>>

\* _run: bucket.blob(...).download_as_bytes(); NotFound when the document
\* is not in the bucket, which nothing catches
get_blob ==
    /\ getter.pc = "blob"
    /\ getter' = [getter EXCEPT !.pc = "responded",
                    !.response =
                        IF <<getter.kind, getter.id, BlobOf(getter.kind)>> \in hstore.blob
                        THEN Response(HTTP_200, getter.id, BlobOf(getter.kind))
                        ELSE Response(HTTP_500, getter.id, "NotFound")]
    /\ UNCHANGED <<hstore, saver, non_store>>

get_return ==
    /\ getter.pc = "responded"
    /\ getter' = NoGet
    /\ UNCHANGED <<hstore, saver, non_store>>

StNext ==
    \/ save_init
    \/ save_upload_metadata
    \/ save_upload_blob
    \/ save_return
    \/ get_init
    \/ get_metadata
    \/ get_blob
    \/ get_return

SpecStore == Init /\ [][StNext]_vars

---------------------------------------------------------------------------
(* detect_scam of scam_detection_service.py on one request *)

detect_scam_call ==
    /\ fpc = "idle"
    /\ \E triggered \in [1..10 -> BOOLEAN], reply \in GeminiReplies :
        /\ farg' = [triggered |-> triggered, reply |-> reply]
        /\ fres' = detect_scam(triggered, reply)
    /\ fpc' = "detect_scam"
    /\ UNCHANGED non_fvars

DNext ==
    \/ detect_scam_call
    \/ helper_return

SpecScamDetection == Init /\ [][DNext]_vars

---------------------------------------------------------------------------
(* _hf_modernbert_bias_analyze on one text *)

hf_modernbert_bias_analyze_call ==
    /\ fpc = "idle"
    /\ \E bias_scores \in BiasScoreMaps, bias_cutoff \in BiasLevels :
        /\ farg' = [bias_scores |-> bias_scores, bias_cutoff |-> bias_cutoff]
        /\ fres' = _hf_modernbert_bias_analyze(bias_scores, bias_cutoff)
    /\ fpc' = "_hf_modernbert_bias_analyze"
    /\ UNCHANGED non_fvars

SeNext ==
    \/ hf_modernbert_bias_analyze_call
    \/ helper_return

SpecSentiment == Init /\ [][SeNext]_vars

---------------------------------------------------------------------------
(* split_text_into_chunks on one text *)

split_text_into_chunks_call ==
    /\ fpc = "idle"
    /\ \E text \in Texts, max_chars \in ChunkLimits :
        /\ farg' = [text |-> text, max_chars |-> max_chars]
        /\ fres' = split_text_into_chunks(text, max_chars)
    /\ fpc' = "split_text_into_chunks"
    /\ UNCHANGED non_fvars

TNext ==
    \/ split_text_into_chunks_call
    \/ helper_return

SpecChunks == Init /\ [][TNext]_vars

---------------------------------------------------------------------------
(* Observations on the state of a request *)

Returned == pc = "done"

IsGeneric ==
    /\ req.kind = "url"
    /\ \/ req.module = "extractor" /\ Extractor_detect_url_type(req.url) = "generic"
       \/ req.module = "service" /\ Service_detect_url_type(req.url) = "generic"

\* tier 1 has fetched (static fetch of extractor.py, newspaper of the service)
Tier1Ran == IsGeneric /\ Len(calls) >= 1
RenderRan == "render" \in Range(calls)

\* the word count the gate is handed
GateCount ==
    IF req.module = "extractor" THEN Len(tier1.soup_text) ELSE Len(tier1.raw_html)

GateDomain == KnownPaywallDomain(req.url)
GateSignal == HasPaywallSignal(tier1.raw_html)
GateFew == GateCount < GATE_BELOW

\* the gate has looked at a fetched page and rejected it
GateRejected == Tier1Ran /\ tier1.ok /\ (GateDomain \/ GateSignal \/ GateFew)

\* the content tier 1 handed on: empty after an exception or a rejection
Tier1Text == IF tier1.ok /\ ~GateRejected THEN tier1.text ELSE <<>>

GateMessages == {MSG_DOMAIN, MSG_SIGNAL, MSG_LITTLE}

---------------------------------------------------------------------------
(* The claims *)

\* C1: every returned ExtractionResult has exactly one of content non-empty,
\* error non-empty.
C1_ExactlyOneOfContentError ==
    Returned => ((result.content # <<>>) <=> (result.error = "None"))

\* C2: when the gate rejects the tier-1 fetch of a generic page, the adapter
\* returns an error result carrying the gate's message and the render tier is
\* never invoked for that request.
C2_GateRejectionShortCircuits ==
    GateRejected =>
        /\ Returned
        /\ result.error \in GateMessages
        /\ GateDomain => result.error = MSG_DOMAIN
        /\ result.content = <<>>
        /\ ~RenderRan

C2_Witness ==
    /\ Returned /\ req.module = "extractor" /\ GateRejected
    /\ ~GateDomain /\ Len(tier1.text) = 30

C4_Static30Render200 ==
    (/\ Returned /\ IsGeneric /\ req.module = "extractor" /\ Len(calls) >= 1
     /\ tier1.ok /\ ~GateDomain /\ ~GateSignal
     /\ Len(tier1.text) = 30) =>
        /\ RenderRan
        /\ Len(tier2.text) = 200 =>
              /\ result.error = "None"
              /\ result.extraction_method = "playwright"
              /\ result.word_count = 200

\* C4 as amended: as C4, for a static page whose whole text has at least 120
\* words (so that the gate accepts it) and whose main content has 30 words.
C4_Static30Render200_GatePassed ==
    (/\ Returned /\ IsGeneric /\ req.module = "extractor" /\ Len(calls) >= 1
     /\ tier1.ok /\ ~GateDomain /\ ~GateSignal
     /\ Len(tier1.soup_text) >= GATE_BELOW
     /\ Len(tier1.text) = 30) =>
        /\ RenderRan
        /\ Len(tier2.text) = 200 =>
              /\ result.error = "None"
              /\ result.extraction_method = "playwright"
              /\ result.content = tier2.text
              /\ result.word_count = 200

C4_Witness ==
    /\ Returned /\ IsGeneric /\ req.module = "extractor" /\ RenderRan
    /\ Len(tier1.text) = 30 /\ Len(tier2.text) = 200
    /\ result.extraction_method = "playwright" /\ result.word_count = 200

\* C5: when both tiers have run, the render content is kept if and only if the
\* render tier produced strictly more words than tier 1; the method names the
\* kept tier, and a successful result returns that tier's content.
C5_KeepStrictlyMoreWords ==
    (Returned /\ RenderRan) =>
        /\ (result.extraction_method = "playwright")
              <=> (Len(tier2.text) > Len(Tier1Text))
        /\ (result.extraction_method = "beautifulsoup")
              <=> (Len(tier2.text) <= Len(Tier1Text))
        /\ result.error = "None" =>
              result.content = (IF Len(tier2.text) > Len(Tier1Text)
                                THEN tier2.text ELSE tier1.text)

\* a tie above the floor: tier 1 is kept
C5_Witness ==
    /\ Returned /\ RenderRan /\ result.error = "None"
    /\ Len(tier2.text) = Len(tier1.text)
    /\ result.content = tier1.text /\ result.content # tier2.text

\* words of the best content over the tiers that ran
BestWords == IF Len(tier2.text) > Len(Tier1Text) THEN Len(tier2.text) ELSE Len(Tier1Text)

\* C6: the generic adapter never returns a success with fewer than 50 words;
\* when a fetch was made, the gate did not reject it and the best content of
\* the tiers that ran is under 50 words (or absent), the result is the "could
\* not extract meaningful content" failure, empty, word_count 0.
C6_FloorOnGenericResults ==
    (Returned /\ IsGeneric) =>
        /\ result.error = "None" =>
              Len(result.content) >= FLOOR_BELOW /\ result.word_count >= FLOOR_BELOW
        /\ (Len(calls) >= 1 /\ ~GateRejected /\ BestWords < FLOOR_BELOW) =>
              /\ result.error = MSG_FLOOR
              /\ result.content = <<>>
              /\ result.word_count = 0

C6_Witness ==
    /\ Returned /\ IsGeneric /\ RenderRan
    /\ BestWords = FLOOR_BELOW - 1 /\ result.error = MSG_FLOOR

\* C7: if the render tier fails, the outcome is what tier 1's content alone
\* determines: a success with tier-1 content and method when tier 1 has at
\* least 50 words, else the floor failure; the render failure is not raised
\* and is not the reason of the failure.
C7_RenderFailureFallsBackToTier1 ==
    (RenderRan /\ ~tier2.ok) =>
        /\ Returned
        /\ result.extraction_method = "beautifulsoup"
        /\ Len(Tier1Text) >= FLOOR_BELOW =>
              /\ result.error = "None"
              /\ result.content = tier1.text
              /\ result.word_count = Len(tier1.text)
        /\ Len(Tier1Text) < FLOOR_BELOW =>
              result.error = MSG_FLOOR /\ result.content = <<>>

C7_Witness ==
    /\ RenderRan /\ ~tier2.ok /\ result.error = "None"
    /\ Len(result.content) = FLOOR_BELOW

\* C8: the gate checks known domain, then phrase in the lowercased markup,
\* then word count < 120, and the first match decides; markup holding
\* "subscribe to continue reading" is rejected for every word count; a page
\* matching none of the three is accepted.
C8_GateOrder ==
    (Returned /\ Tier1Ran /\ tier1.ok) =>
        /\ GateDomain => result.error = MSG_DOMAIN
        /\ (~GateDomain /\ GateSignal) => result.error = MSG_SIGNAL
        /\ (~GateDomain /\ ~GateSignal /\ GateFew) => result.error = MSG_LITTLE
        /\ (~GateDomain /\ ~GateSignal /\ ~GateFew) => result.error \notin GateMessages
        /\ Contains(tier1.raw_html, <<"Subscribe","to","continue","Reading">>) =>
              result.error \in {MSG_DOMAIN, MSG_SIGNAL}

\* the phrase decides although the page is also short
C8_Witness ==
    /\ Returned /\ Tier1Ran /\ tier1.ok /\ req.module = "extractor"
    /\ ~GateDomain /\ GateSignal /\ GateFew
    /\ result.error = MSG_SIGNAL


\* the note is the template of the band p lies in, and of no other
BandsOf(note, clear, none, dubious, p) ==
    /\ (note = clear) <=> (p >= HIGH)
    /\ (note = none) <=> (p <= LOW)
    /\ (note = dubious) <=> (LOW < p /\ p < HIGH)
    /\ Cardinality({b \in {clear, none, dubious} : note = b}) = 1

\* C9: for every probability the backup engine selects exactly one band:
\* confident-positive when p >= HIGH, confident-negative when p <= LOW,
\* indeterminate strictly between.
C9_ExactlyOneBand ==
    apc = "backup" =>
        /\ BandsOf(report.scam_notes[1], SCAM_CLEAR, SCAM_NONE, SCAM_DUBIOUS, prob)
        /\ BandsOf(report.subjective_notes[1], SUBJ_CLEAR, SUBJ_NONE, SUBJ_DUBIOUS, prob)

C9_Witness ==
    /\ apc = "backup" /\ prob = HIGH
    /\ report.scam_notes = <<SCAM_CLEAR>>

\* the note says that the advisory service did not take part
HeuristicOnlyAnnotated(notes) ==
    notes[1] \in {SCAM_DUBIOUS, SUBJ_DUBIOUS, BIAS_DUBIOUS}

\* C10: whenever a section comes from the banded template because the advisory
\* service was unconfigured or failed, the result is explicitly annotated as
\* heuristic-only, in every band.
C10_TemplateAnnotatedHeuristicOnly ==
    (apc = "done" /\ (~ai.configured \/ ai.failed)) =>
        /\ HeuristicOnlyAnnotated(report.scam_notes)
        /\ HeuristicOnlyAnnotated(report.subjective_notes)
        /\ HeuristicOnlyAnnotated(report.bias_notes)

\* C10, for the confident-positive scam band alone
C10_ConfidentPositiveAnnotated ==
    (apc = "done" /\ ~ai.configured /\ _score_scam(atext) >= HIGH) =>
        HeuristicOnlyAnnotated(report.scam_notes)

\* what the code does annotate: the indeterminate band only
C10_OnlyDubiousAnnotated ==
    (apc = "done" /\ TAG_SCAM \notin DOMAIN ai.sections) =>
        (HeuristicOnlyAnnotated(report.scam_notes)
            <=> (LOW < _score_scam(atext) /\ _score_scam(atext) < HIGH))


\* the review was asked for and the advisory service did not deliver one
ReviewEnded == rpc \in {"done", "raised"}
ReviewWanted == rreq.prob >= rreq.threshold /\ rreq.review_with_llm
AdvisoryFailed ==
    /\ ReviewEnded /\ ReviewWanted
    /\ \/ ~rreq.configured
       \/ rreq.outcome.kind \in {"raise", "malformed"}
       \/ rreq.outcome.kind = "reply" /\ rreq.outcome.sentences = 0

\* C11: any failure of the advisory service (missing credentials, an error of
\* the client, a connection failure, an empty or malformed reply) ends in a
\* returned result that carries the local fallback text; none is raised to the
\* caller of detect_scam or detect_objectivity.
C11_AdvisoryFailureFallsBack ==
    AdvisoryFailed =>
        /\ rpc = "done"
        /\ rres.raised = "None"
        /\ rres.llm_review = Some(FALLBACK_REVIEW)

\* C11, for the failures the except clause names and for missing credentials
C11_NamedFailuresFallBack ==
    (AdvisoryFailed /\ (~rreq.configured \/ rreq.outcome.kind = "raise")) =>
        /\ rpc = "done"
        /\ rres.raised = "None"
        /\ rres.llm_review = Some(FALLBACK_REVIEW)
        /\ rres.llm_review_model = "fallback-local"

\* C11, for analyze: a failed or unconfigured advisory call is never raised
\* and every section is the local one
C11_AnalyzeFallsBack ==
    (apc \in {"done", "raised"} /\ atext.words > 0 /\ (~ai.configured \/ ai.failed)) =>
        /\ apc = "done"
        /\ report.scam_notes = <<_scam_backup(_score_scam(atext))>>
        /\ report.summary = atext.extractive
        /\ report.ai_sections = {}


---------------------------------------------------------------------------
(* Observations on an HTTP request *)

AnalysisRoutes == {"POST /clearview"} \cup RequestObjectRoutes
Analyzers == {"summarize", "detect_scam", "detect_objectivity", "analyze_sentiment"}

Responded == hpc = "responded"

\* extract returned an ExtractionResult to the route
ExtractionObtained == hcalls # <<>> /\ hcalls[1] = Call("extract", "None")

\* an analyzer got as far as computing on the text
AnalyzerRan ==
    \E i \in 1..Len(hcalls) : hcalls[i].call \in Analyzers /\ hcalls[i].outcome = "ran"

\* the save of this request was attempted and failed
SaveFailed ==
    \E i \in 1..Len(hcalls) :
        hcalls[i].call \in {"save_audio", "save_clearway"} /\ hcalls[i].outcome # "None"

\* the bucket holds the audio of record id
AudioStored(id) == \E b \in hstore.blob : b[1] = "audio" /\ b[2] = id

\* C12: in every analysis route an extraction whose error is set or whose
\* content is empty ends the request with a client error (422), and no
\* analyzer has run on it.
C12_NoAnalysisOnFailedExtraction ==
    (/\ hreq.route \in AnalysisRoutes
     /\ ExtractionObtained
     /\ (hext.error # "None" \/ hext.content = <<>>)) =>
        /\ Responded
        /\ hresp.status = HTTP_422
        /\ ~AnalyzerRan
        /\ Len(hcalls) = 1

\* an extraction without error and without content is turned away
C12_Witness ==
    /\ hreq.route = "POST /clearview" /\ Responded /\ ExtractionObtained
    /\ hext.error = "None" /\ hext.content = <<>>
    /\ hresp.status = HTTP_422

\* C13: in the clearview route the four analyses are launched and joined; a
\* failure of one of them leaves that analysis absent and the request still
\* completes successfully.
C13_ClearviewCompletes ==
    (/\ hreq.route = "POST /clearview" /\ Responded /\ ExtractionObtained
     /\ hext.error = "None" /\ hext.content # <<>>) =>
        hresp.status = HTTP_200

\* C14: a failure of the persistence service while saving never fails the
\* POST: the route still answers 200 with the generated content.
C14_SaveFailureDoesNotFailPost ==
    (hreq.route \in {"POST /clearview", "POST /audio"} /\ Responded /\ SaveFailed) =>
        /\ hresp.status = HTTP_200
        /\ hresp.body = haudio.bytes
        /\ hresp.id = haudio.id

\* the metadata went up, the audio did not, the POST is answered all the same
C14_Witness ==
    /\ hreq.route = "POST /audio" /\ Responded /\ SaveFailed
    /\ hstore.configured /\ <<"audio", haudio.id>> \in hstore.meta
    /\ ~AudioStored(haudio.id)
    /\ hresp.status = HTTP_200

C16_InitializedAtMostOnce ==
    \A k \in Kinds :
        /\ built[k] <= 1
        /\ \A t \in Threads :
              (worker[t].kind = k /\ worker[t].pc \in {"run", "done"}) =>
                  worker[t].handle = 1


\* the request carries an input the program must refuse: nothing at all,
\* several inputs, an empty or blank text, url or file, a text that is too long
RefusedInput ==
    \/ req.kind \in {"no input", "several inputs"}
    \/ req.kind \in {"text", "file"} /\ req.text.words = <<>>
    \/ req.kind = "url" /\ req.url = NoUrl
    \/ req.kind = "text" /\ req.text.length > MAX_TEXT_LENGTH

\* C17: for an empty or blank input, a text longer than 50,000 characters,
\* or not exactly one of text/url/file, extract reports a fault of the input
\* (a ValueError or an error result) and invokes no adapter and no fetch.
C17_RefusedInputInvokesNothing ==
    RefusedInput =>
        /\ calls = <<>>
        /\ pc = "done" => result.error # "None" /\ result.content = <<>>


C19_WordCountOfContent ==
    pc = "done" =>
        /\ result.word_count = Len(result.content)
        /\ result.error # "None" => result.word_count = 0


\* C20: the text normalizer is idempotent: for every text of carriage
\* returns, line feeds, tabs, spaces and other characters,
\* _normalize(_normalize(t)) = _normalize(t).
C20_NormalizeIdempotent ==
    npc = "twice" => ntwice = nonce

\* blank lines that only stripping reveals are collapsed in the first pass
C20_Witness ==
    /\ npc = "twice"
    /\ ntext = <<"a", "\n", " ", "\r", "\n">>
    /\ nonce = <<"a">>
    /\ ntwice = nonce


\* the pieces of a query with their values unquoted
Unquoted(query) == [i \in 1..Len(query) |-> [query[i] EXCEPT !.v = Unquote(@)]]

\* the pieces of a query whose lowercased key is not a tracking parameter
WithoutTracking(query) ==
    LET Clean(p) == Lower(p.k) \notin TRACKING_PARAMS IN SelectSeq(query, Clean)

\* C21: clean_url is idempotent: clean_url(clean_url(u)) = clean_url(u) for
\* every URL, with or without a scheme, with any mix of tracking and other
\* query parameters.
C21_CleanUrlIdempotent ==
    fpc = "clean_url" => fres.twice = fres.once

\* a URL without scheme, with a tracking key in capitals, a repeated key
\* and a value that is written differently afterwards
C21_Witness ==
    /\ fpc = "clean_url"
    /\ farg.scheme = ""
    /\ farg.query = << [k |-> <<"i","d">>, v |-> "%20"],
                       [k |-> <<"R","e","f">>, v |-> "1"],
                       [k |-> <<"i","d">>, v |-> "1"] >>
    /\ fres.once.scheme = "https"
    /\ fres.once.query = << [k |-> <<"i","d">>, v |-> "+"], [k |-> <<"i","d">>, v |-> "1"] >>
    /\ fres.twice = fres.once

\* C22: clean_url removes the query parameters whose lowercased key is a
\* tracking parameter and nothing else: every other parameter, empty-valued
\* and repeated ones included, is kept with its value and in its place, and
\* host, path and fragment are unchanged.
C22_StripsExactlyTracking ==
    fpc = "clean_url" =>
        /\ Unquoted(fres.once.query) = Unquoted(WithoutTracking(farg.query))
        /\ fres.once.host = farg.host
        /\ fres.once.path = farg.path
        /\ fres.once.fragment = farg.fragment

\* C23: a trimmed input is classified as a URL if and only if it starts with
\* http:// or https://, or it holds no whitespace of any kind (space, tab,
\* line end) and begins like a domain name; every other input is text.
C23_UrlIffSchemeOrDomain ==
    fpc = "_is_url" =>
        (fres <=>
            \/ StartsWith(farg.head, <<"h","t","t","p",":","/","/">>)
            \/ StartsWith(farg.head, <<"h","t","t","p","s",":","/","/">>)
            \/ Len(farg.words) = 1 /\ DomainLike(farg.head))

\* C24: whatever the text, the empty and the whitespace-only text included,
\* the scam score, the subjectivity score and the score of every bias
\* category lie in [0,1], and the bias map has exactly the fixed categories
C24_ScoresInUnitInterval ==
    fpc = "score" =>
        /\ fres.scam \in 0..ProbScale
        /\ fres.subjectivity \in 0..ProbScale
        /\ DOMAIN fres.biases = BIAS_CATEGORIES
        /\ \A c \in BIAS_CATEGORIES : fres.biases[c] \in 0..ProbScale

\* the scorers have answered on the empty text
C24_Witness ==
    /\ fpc = "score"
    /\ farg = NoDoc
    /\ fres.scam = 0
    /\ fres.subjectivity = ProbScale \div 2

\* C25: a text that matches every scam phrase another text matches and more,
\* with the same word count, capitals and exclamation marks, scores at least
\* as high
C25_ScamScoreMonotonic ==
    fpc = "_score_scam" => fres.b >= fres.a

\* a text below saturation gained a phrase and scores strictly higher
C25_Witness ==
    /\ fpc = "_score_scam"
    /\ \E i \in 1..6 : /\ farg.a.scam_hits[i] < SCAM_SATURATION
                       /\ farg.b.scam_hits[i] > farg.a.scam_hits[i]
    /\ fres.b > fres.a

\* summary is the sentence_count best candidates of text in document order
IsTopInOrder(summary, text, sentence_count) ==
    /\ summary.ok
    /\ LET r == summary.text
           scores == SentenceScores(text)
       IN  /\ Range(r) \subseteq Candidates(text)
           /\ Len(r) = Min(sentence_count, Cardinality(Candidates(text)))
           /\ \A a, b \in 1..Len(r) : a < b => r[a] < r[b]
           /\ \A i \in Range(r), j \in Candidates(text) \ Range(r) :
                 scores[i] >= scores[j]

\* C26: on a document with candidates, each extractive summarizer returns
\* the N highest-scoring candidates in their document order; for N = 3 on
\* the ten-sentence document whose sentences 2, 5, 9 alone hold the
\* repeated keyword the summary is sentences 2, 5, 9 in that order
C26_TopSentencesInDocumentOrder ==
    (fpc = "_extractive_summarize" /\ Candidates(farg.text) # {}) =>
        /\ IsTopInOrder(fres.analysis, farg.text, farg.sentence_count)
        /\ IsTopInOrder(fres.summarizer, farg.text, farg.sentence_count)
        /\ (farg.text \in SyntheticDocs /\ farg.sentence_count = 3) =>
              /\ fres.analysis = Some(<<2, 5, 9>>)
              /\ fres.summarizer = Some(<<2, 5, 9>>)

\* C27: whatever the interleaving of a save with a get of the same id and
\* wherever the save fails, the get answers not-found or returns the
\* metadata with the document; it never finds the metadata and then no
\* document
C27_NeverHalfWritten ==
    getter.pc = "responded" =>
        \/ ~hstore.configured
        \/ getter.response.status = HTTP_404
        \/ /\ getter.response.status = HTTP_200
           /\ getter.response.body = BlobOf(getter.kind)

C29_LowRiskIffNothingAboveCutoff ==
    fpc = "_hf_modernbert_bias_analyze" =>
        (fres.bias_risk = "low" <=> fres.biases_above_cutoff = {})

\* C30: whatever the text and max_chars, no chunk split_text_into_chunks
\* returns is longer than max_chars
C30_ChunksWithinLimit ==
    fpc = "split_text_into_chunks" =>
        \A i \in 1..Len(fres) : fres[i] <= farg.max_chars
=============================================================================
